---- MODULE Spec2Model ----
(***************************************************************************)
(* hirematch-backend: the matching and skill-gap engine.                   *)
(*                                                                         *)
(* A string is a sequence of characters, a character a one-element string  *)
(* of TLA+ ("a", " ", "\n"); "U+1F600" stands for the emoji of that code   *)
(* point.  A Python list is a sequence, a Python set a set, a dict a       *)
(* record.  A float that the code computes from integers is kept exactly   *)
(* as a numerator over a denominator.                                      *)
(***************************************************************************)
EXTENDS Integers, Sequences, FiniteSets, TLC

VARIABLES
    pc,            \* "call": the operation is about to run; "done": it has ended
    op,            \* the operation this process runs
    args,          \* its arguments
    ret,           \* its outcome: [raised |-> FALSE, value |-> v] or [raised |-> TRUE, ...]
    env,           \* what the embedding provider and sklearn did during the call
    MODEL,         \* semantic_matcher._MODEL, the cached embedding model
    DUBAI_SKILLS   \* missing_skills.DUBAI_SKILLS, loaded from skills_dubai.json

vars == <<pc, op, args, ret, env, MODEL, DUBAI_SKILLS>>

-----------------------------------------------------------------------------
(* Bounds of the model.                                                    *)

\* longest skill list of a request
MaxSkillList == 2

\* most (resume unit, job unit) pairs of a request whose pairs are ranked
MaxPairs == 7

\* longest text whose lines are taken apart character by character
MaxTextLen == 4

\* longest text handed to a normalizer
MaxNormLen == 5

-----------------------------------------------------------------------------
(* Python's str.                                                           *)

\* ord(c) of the characters the model uses
CodePoint ==
    "\t" :> 9 @@ "\n" :> 10 @@ " " :> 32 @@ "'" :> 39 @@ "(" :> 40 @@ ")" :> 41
    @@ "+" :> 43 @@ "-" :> 45 @@ "." :> 46 @@ "/" :> 47 @@ "0" :> 48 @@ "1" :> 49
    @@ "2" :> 50 @@ "3" :> 51 @@ "4" :> 52 @@ "5" :> 53 @@ "6" :> 54 @@ "7" :> 55
    @@ "8" :> 56 @@ "9" :> 57 @@ ":" :> 58 @@ "<" :> 60
    @@ ">" :> 62 @@ "@" :> 64 @@ "A" :> 65 @@ "B" :> 66 @@ "C" :> 67 @@ "D" :> 68 @@ "E" :> 69
    @@ "F" :> 70 @@ "G" :> 71 @@ "H" :> 72 @@ "I" :> 73 @@ "J" :> 74 @@ "K" :> 75
    @@ "L" :> 76 @@ "M" :> 77 @@ "N" :> 78 @@ "O" :> 79 @@ "P" :> 80 @@ "Q" :> 81
    @@ "R" :> 82 @@ "S" :> 83 @@ "T" :> 84 @@ "U" :> 85 @@ "V" :> 86 @@ "W" :> 87
    @@ "X" :> 88 @@ "Y" :> 89 @@ "Z" :> 90 @@ "_" :> 95 @@ "a" :> 97 @@ "b" :> 98 @@ "c" :> 99
    @@ "d" :> 100 @@ "e" :> 101 @@ "f" :> 102 @@ "g" :> 103 @@ "h" :> 104 @@ "i" :> 105
    @@ "j" :> 106 @@ "k" :> 107 @@ "l" :> 108 @@ "m" :> 109 @@ "n" :> 110 @@ "o" :> 111
    @@ "p" :> 112 @@ "q" :> 113 @@ "r" :> 114 @@ "s" :> 115 @@ "t" :> 116 @@ "u" :> 117
    @@ "v" :> 118 @@ "w" :> 119 @@ "x" :> 120 @@ "y" :> 121 @@ "z" :> 122 @@ "U+1F600" :> 128512

Chars == DOMAIN CodePoint

\* the null reference; no string of characters equals it
None == <<"None">>

\* the null reference where a list of strings is expected
NoList == <<None>>

\* str.isspace, on one character
IsSpace(c) == c \in {" ", "\t", "\n"}

\* str.lower, on one character: A-Z are moved to a-z, the rest is kept
LowerTable ==
    [c \in Chars |->
        IF CodePoint[c] >= 65 /\ CodePoint[c] <= 90
        THEN CHOOSE d \in Chars : CodePoint[d] = CodePoint[c] + 32
        ELSE c]

LowerChar(c) == LowerTable[c]

\* s.lower()
lower(s) == [i \in 1..Len(s) |-> LowerChar(s[i])]

\* s.strip(): s without its leading and trailing whitespace
strip(s) ==
    LET keep == {i \in 1..Len(s) : ~IsSpace(s[i])}
    IN  IF keep = {} THEN <<>>
        ELSE LET first == CHOOSE i \in keep : \A j \in keep : i <= j
                 last  == CHOOSE i \in keep : \A j \in keep : j <= i
             IN  SubSeq(s, first, last)

\* `sub in s` on strings: sub occurs in s as a contiguous run
contains(s, sub) ==
    \E i \in 0..(Len(s) - Len(sub)) : SubSeq(s, i + 1, i + Len(sub)) = sub

\* `x in xs` on a list
InList(x, xs) == \E i \in 1..Len(xs) : xs[i] = x

\* a < b on strings: by code point, a proper prefix first
StrLess(a, b) ==
    \E k \in 1..(Len(b)) :
        /\ k <= Len(a) + 1
        /\ \A i \in 1..(k - 1) : a[i] = b[i]
        /\ \/ k = Len(a) + 1
           \/ k <= Len(a) /\ CodePoint[a[k]] < CodePoint[b[k]]

\* sorted(list(S)) of a set of strings
RECURSIVE sorted(_)
sorted(S) ==
    IF S = {} THEN <<>>
    ELSE LET least == CHOOSE x \in S : \A y \in S \ {x} : StrLess(x, y)
         IN  <<least>> \o sorted(S \ {least})

\* set(xs) of a list
ToSet(xs) == {xs[i] : i \in 1..Len(xs)}

\* the lists of at most n elements drawn from S
ListsUpTo(S, n) == UNION {[1..k -> S] : k \in 0..n}

-----------------------------------------------------------------------------
(* missing_skills.py                                                       *)

\* normalize(skill)
normalize(skill) == lower(strip(skill))

\* the hardcoded soft skills of flatten_dubai_skills
SoftSkillList ==
    << <<"c", "o", "m", "m", "u", "n", "i", "c", "a", "t", "i", "o", "n">>,
       <<"t", "e", "a", "m", "w", "o", "r", "k">>,
       <<"l", "e", "a", "d", "e", "r", "s", "h", "i", "p">>,
       <<"p", "r", "o", "b", "l", "e", "m", " ", "s", "o", "l", "v", "i", "n", "g">>,
       <<"c", "r", "i", "t", "i", "c", "a", "l", " ", "t", "h", "i", "n", "k", "i", "n", "g">>,
       <<"a", "d", "a", "p", "t", "a", "b", "i", "l", "i", "t", "y">>,
       <<"t", "i", "m", "e", " ", "m", "a", "n", "a", "g", "e", "m", "e", "n", "t">>,
       <<"c", "r", "e", "a", "t", "i", "v", "i", "t", "y">>,
       <<"a", "t", "t", "e", "n", "t", "i", "o", "n", " ", "t", "o", " ", "d", "e", "t", "a", "i", "l">>,
       <<"c", "o", "l", "l", "a", "b", "o", "r", "a", "t", "i", "o", "n">>,
       <<"w", "o", "r", "k", " ", "e", "t", "h", "i", "c">>,
       <<"d", "e", "c", "i", "s", "i", "o", "n", " ", "m", "a", "k", "i", "n", "g">>,
       <<"s", "e", "l", "f", "-", "m", "o", "t", "i", "v", "a", "t", "e", "d">>,
       <<"f", "l", "e", "x", "i", "b", "i", "l", "i", "t", "y">>,
       <<"p", "r", "o", "j", "e", "c", "t", " ", "m", "a", "n", "a", "g", "e", "m", "e", "n", "t">> >>

\* hard.extend(data.get("Skills", [])) and its siblings, over the domains in order
RECURSIVE ExtendAll(_, _)
ExtendAll(domains, key) ==
    IF domains = <<>> THEN <<>>
    ELSE Head(domains)[key] \o ExtendAll(Tail(domains), key)

NormalizeAll(xs) == [i \in 1..Len(xs) |-> normalize(xs[i])]

\* [normalize(s) for s in soft]
SoftNormalized == NormalizeAll(SoftSkillList)

\* flatten_dubai_skills()
flatten_dubai_skills ==
    [hard  |-> NormalizeAll(ExtendAll(DUBAI_SKILLS, "Skills")),
     soft  |-> SoftNormalized,
     tools |-> NormalizeAll(ExtendAll(DUBAI_SKILLS, "Tools")),
     cloud |-> NormalizeAll(ExtendAll(DUBAI_SKILLS, "Cloud"))]

\* FLAT, computed once the taxonomy is loaded
FLAT == flatten_dubai_skills

TipCloud == "Cloud skills like AWS or Azure are strongly preferred in Dubai."
TipTools == "Consider learning tools such as Docker or Kubernetes."
TipHard  == "Strengthen your core technical stack for better match."
TipSoft  == "Dubai recruiters value soft skills such as communication."

\* BucketOf with the soft taxonomy tested before the hard one
BucketOfSoftFirst(skill, flat) ==
    IF InList(skill, flat.soft) THEN "soft"
    ELSE IF InList(skill, flat.hard) THEN "hard"
    ELSE IF InList(skill, flat.tools) THEN "tools"
    ELSE IF InList(skill, flat.cloud) THEN "cloud"
    ELSE "hard"

\* the if/elif chain of detect_missing_skills: the bucket one missing skill is appended to
BucketOf(skill, flat) ==
    IF InList(skill, flat.hard) THEN "hard"
    ELSE IF InList(skill, flat.soft) THEN "soft"
    ELSE IF InList(skill, flat.tools) THEN "tools"
    ELSE IF InList(skill, flat.cloud) THEN "cloud"
    ELSE "hard"

\* Buckets with four independent ifs in place of the if/elif chain
BucketsIndependentIfs(missing, flat) ==
    [hard  |-> {s \in missing : InList(s, flat.hard) \/ BucketOf(s, flat) = "hard"},
     soft  |-> {s \in missing : InList(s, flat.soft)},
     tools |-> {s \in missing : InList(s, flat.tools)},
     cloud |-> {s \in missing : InList(s, flat.cloud)}]

\* the loop `for skill in missing` of detect_missing_skills: the four lists it fills
Buckets(missing, flat) ==
    [hard  |-> {s \in missing : BucketOf(s, flat) = "hard"},
     soft  |-> {s \in missing : BucketOf(s, flat) = "soft"},
     tools |-> {s \in missing : BucketOf(s, flat) = "tools"},
     cloud |-> {s \in missing : BucketOf(s, flat) = "cloud"}]

\* the tips, with the core-stack tip put first
ImprovementTipsHardFirst(missing_cloud, missing_tools, missing_hard, missing_soft) ==
       (IF missing_hard # {} THEN <<TipHard>> ELSE <<>>)
    \o (IF missing_cloud # {} THEN <<TipCloud>> ELSE <<>>)
    \o (IF missing_tools # {} THEN <<TipTools>> ELSE <<>>)
    \o (IF missing_soft # {} THEN <<TipSoft>> ELSE <<>>)

\* tips, as the four ifs of lines 92-100 append to it
ImprovementTips(missing_cloud, missing_tools, missing_hard, missing_soft) ==
       (IF missing_cloud # {} THEN <<TipCloud>> ELSE <<>>)
    \o (IF missing_tools # {} THEN <<TipTools>> ELSE <<>>)
    \o (IF missing_hard # {} THEN <<TipHard>> ELSE <<>>)
    \o (IF missing_soft # {} THEN <<TipSoft>> ELSE <<>>)

\* detect_missing_skills(resume_skills, job_required_skills)
detect_missing_skills(resume_skills, job_required_skills) ==
    LET resume_set == {normalize(resume_skills[i]) : i \in 1..Len(resume_skills)}
        job_set    == {normalize(job_required_skills[i]) : i \in 1..Len(job_required_skills)}
        missing    == job_set \ resume_set
        matched    == job_set \cap resume_set
        b          == Buckets(missing, FLAT)
        missing_hard  == b.hard
        missing_soft  == b.soft
        missing_tools == b.tools
        missing_cloud == b.cloud
        tips == ImprovementTips(missing_cloud, missing_tools, missing_hard, missing_soft)
    IN  [missing_hard_skills |-> sorted(missing_hard),
         missing_soft_skills |-> sorted(missing_soft),
         missing_tools       |-> sorted(missing_tools),
         missing_cloud       |-> sorted(missing_cloud),
         matched_skills      |-> sorted(matched),
         improvement_tips    |-> tips]

-----------------------------------------------------------------------------
(* Floats.  A number the program reads or prints is kept exactly, as       *)
(* [num, den] with den > 0.  The arithmetic of the program is that of the  *)
(* binary64 format: a float is [sgn, man, scale], the number               *)
(* sgn * man / 2^scale with man a natural number below 2^53, written as    *)
(* its digits of base 8192, the lowest first.                              *)

Frac(n, d) == [num |-> n, den |-> d]

FracLess(a, b) == a.num * b.den < b.num * a.den

FracLeq(a, b) == a.num * b.den <= b.num * a.den

RECURSIVE Pow10(_)
Pow10(k) == IF k = 0 THEN 1 ELSE 10 * Pow10(k - 1)

RECURSIVE Pow2(_)
Pow2(k) == IF k = 0 THEN 1 ELSE 2 * Pow2(k - 1)

\* the number of binary digits of the natural number n
RECURSIVE BitLenInt(_)
BitLenInt(n) == IF n = 0 THEN 0 ELSE 1 + BitLenInt(n \div 2)

\* a natural number without its leading zero digits
RECURSIVE BigTrim(_)
BigTrim(x) ==
    IF x = <<>> \/ x[Len(x)] # 0 THEN x ELSE BigTrim(SubSeq(x, 1, Len(x) - 1))

RECURSIVE BigFromInt(_)
BigFromInt(n) == IF n = 0 THEN <<>> ELSE <<n % 8192>> \o BigFromInt(n \div 8192)

RECURSIVE BigToInt(_)
BigToInt(x) == IF x = <<>> THEN 0 ELSE x[1] + 8192 * BigToInt(Tail(x))

Limb(x, i) == IF i <= Len(x) THEN x[i] ELSE 0

BigOdd(x) == x # <<>> /\ x[1] % 2 = 1

\* x * 8192^n
BigShiftLimbs(x, n) == IF x = <<>> THEN <<>> ELSE [i \in 1..n |-> 0] \o x

RECURSIVE BigMulSmallFrom(_, _, _, _)
BigMulSmallFrom(x, i, m, c) ==
    IF i > Len(x) THEN BigFromInt(c)
    ELSE <<(x[i] * m + c) % 8192>>
         \o BigMulSmallFrom(x, i + 1, m, (x[i] * m + c) \div 8192)

\* x * m, m a natural number below 2^17
BigMulSmall(x, m) == IF m = 0 THEN <<>> ELSE BigMulSmallFrom(x, 1, m, 0)

RECURSIVE BigAddFrom(_, _, _, _)
BigAddFrom(x, y, i, c) ==
    IF i > Len(x) /\ i > Len(y) THEN (IF c = 0 THEN <<>> ELSE <<c>>)
    ELSE <<(Limb(x, i) + Limb(y, i) + c) % 8192>>
         \o BigAddFrom(x, y, i + 1, (Limb(x, i) + Limb(y, i) + c) \div 8192)

BigAdd(x, y) == BigAddFrom(x, y, 1, 0)

RECURSIVE BigSubFrom(_, _, _, _)
BigSubFrom(x, y, i, b) ==
    IF i > Len(x) THEN <<>>
    ELSE <<(x[i] - Limb(y, i) - b + 8192) % 8192>>
         \o BigSubFrom(x, y, i + 1, IF x[i] - Limb(y, i) - b < 0 THEN 1 ELSE 0)

\* x - y, for y at most x
BigSub(x, y) == BigTrim(BigSubFrom(x, y, 1, 0))

BigLess(x, y) ==
    \/ Len(x) < Len(y)
    \/ /\ Len(x) = Len(y)
       /\ \E i \in 1..Len(x) : x[i] < y[i] /\ \A j \in (i + 1)..Len(x) : x[j] = y[j]

RECURSIVE BigMulFrom(_, _, _)
BigMulFrom(x, y, i) ==
    IF i > Len(x) THEN <<>>
    ELSE BigAdd(BigMulSmall(y, x[i]), BigShiftLimbs(BigMulFrom(x, y, i + 1), 1))

BigMul(x, y) == BigMulFrom(x, y, 1)

\* the quotient of the digits i..1 of x, under the remainder r of the digits
\* above them, by m, m a natural number below 2^18
RECURSIVE BigQuoSmallFrom(_, _, _, _)
BigQuoSmallFrom(x, i, m, r) ==
    IF i = 0 THEN <<>>
    ELSE BigQuoSmallFrom(x, i - 1, m, (r * 8192 + x[i]) % m)
         \o <<(r * 8192 + x[i]) \div m>>

BigQuoSmall(x, m) == BigTrim(BigQuoSmallFrom(x, Len(x), m, 0))

RECURSIVE BigModSmallFrom(_, _, _, _)
BigModSmallFrom(x, i, m, r) ==
    IF i = 0 THEN r ELSE BigModSmallFrom(x, i - 1, m, (r * 8192 + x[i]) % m)

BigModSmall(x, m) == BigModSmallFrom(x, Len(x), m, 0)

BigBitLen(x) ==
    IF x = <<>> THEN 0 ELSE 13 * (Len(x) - 1) + BitLenInt(x[Len(x)])

\* x * 2^t
BigShiftLeft(x, t) == BigShiftLimbs(BigMulSmall(x, Pow2(t % 13)), t \div 13)

\* the digits of x above its n lowest
BigDropLimbs(x, n) == IF n >= Len(x) THEN <<>> ELSE SubSeq(x, n + 1, Len(x))

\* x \div 2^t
BigShiftRight(x, t) == BigQuoSmall(BigDropLimbs(x, t \div 13), Pow2(t % 13))

\* x is not a multiple of 2^t
BigLowBits(x, t) ==
    \/ \E i \in 1..(t \div 13) : Limb(x, i) # 0
    \/ BigModSmall(BigDropLimbs(x, t \div 13), Pow2(t % 13)) # 0

\* x / 2^t rounded to the nearest natural number, a tie to the even one;
\* inexact tells that x stands for a number a little above x
BigRoundShift(x, t, inexact) ==
    IF t = 0 THEN x
    ELSE LET q    == BigShiftRight(x, t)
             half == BigOdd(BigShiftRight(x, t - 1))
             rest == inexact \/ BigLowBits(x, t - 1)
         IN  IF half /\ (rest \/ BigOdd(q)) THEN BigAdd(q, <<1>>) ELSE q

\* the binary64 nearest to sgn * man / 2^scale, a tie to the even mantissa
Fl(sgn, man, scale, inexact) ==
    LET drop == BigBitLen(man) - 53
    IN  IF man = <<>> THEN [sgn |-> 1, man |-> <<>>, scale |-> 0]
        ELSE IF drop <= 0 THEN [sgn |-> sgn, man |-> man, scale |-> scale]
        ELSE [sgn   |-> sgn,
              man   |-> BigRoundShift(man, drop, inexact),
              scale |-> scale - drop]

\* float(x): the binary64 nearest to the number x, which is also the float
\* of the division x.num / x.den
ToDouble(x) ==
    LET p     == IF x.num < 0 THEN -x.num ELSE x.num
        sgn   == IF x.num < 0 THEN -1 ELSE 1
        width == BitLenInt(x.den)
        shift == 64 + width
        big   == BigShiftLeft(BigFromInt(p), shift)
    IN  IF x.den = Pow2(width - 1)
        THEN Fl(sgn, BigFromInt(p), width - 1, FALSE)
        ELSE Fl(sgn, BigQuoSmall(big, x.den), shift, BigModSmall(big, x.den) # 0)

\* a + b of two floats
FloatAdd(a, b) ==
    LET scale == IF a.scale > b.scale THEN a.scale ELSE b.scale
        x == BigShiftLeft(a.man, scale - a.scale)
        y == BigShiftLeft(b.man, scale - b.scale)
    IN  IF a.sgn = b.sgn THEN Fl(a.sgn, BigAdd(x, y), scale, FALSE)
        ELSE IF BigLess(x, y) THEN Fl(b.sgn, BigSub(y, x), scale, FALSE)
        ELSE Fl(a.sgn, BigSub(x, y), scale, FALSE)

\* a * b of two floats
FloatMul(a, b) == Fl(a.sgn * b.sgn, BigMul(a.man, b.man), a.scale + b.scale, FALSE)

\* a / 2.0
FloatHalf(a) == IF a.man = <<>> THEN a ELSE [a EXCEPT !.scale = @ + 1]

\* round(d, k) of the float d: the multiple of 10^-k nearest to the number
\* d holds, a tie to the even multiple
RoundDouble(d, k) ==
    LET n == BigMulSmall(d.man, Pow10(k))
        j == IF d.scale <= 0 THEN BigShiftLeft(n, -d.scale)
             ELSE BigRoundShift(n, d.scale, FALSE)
    IN  Frac(d.sgn * BigToInt(j), Pow10(k))

\* round(x, k) of the float nearest to x
round(x, k) == RoundDouble(ToDouble(x), k)

-----------------------------------------------------------------------------
(* semantic_matcher.py                                                     *)

\* _MODEL = None
NoModel == "None"

\* get_embedding_model constructing the model at every call
get_embedding_model_fresh(model_name) == model_name

\* get_embedding_model(model_name): the value of _MODEL after the call
get_embedding_model(model_name) == IF MODEL = NoModel THEN model_name ELSE MODEL

\* text.split("\n")
RECURSIVE SplitLines(_)
SplitLines(text) ==
    IF \A i \in 1..Len(text) : text[i] # "\n" THEN <<text>>
    ELSE LET i == CHOOSE k \in 1..Len(text) :
                      text[k] = "\n" /\ \A m \in 1..(k - 1) : text[m] # "\n"
         IN  <<SubSeq(text, 1, i - 1)>> \o SplitLines(SubSeq(text, i + 1, Len(text)))

NonBlank(s) == strip(s) # <<>>

\* Units with a text of no non-blank line giving no unit at all
UnitsNoFallback(text) == SelectSeq(SplitLines(text), NonBlank)

\* [s for s in text.split("\n") if s.strip()] or [text]
Units(text) ==
    LET kept == SelectSeq(SplitLines(text), NonBlank)
    IN  IF kept = <<>> THEN <<text>> ELSE kept

\* np.clip(sim, -1.0, 1.0)
clip(sim) ==
    IF FracLess(sim, Frac(-1, 1)) THEN Frac(-1, 1)
    ELSE IF FracLess(Frac(1, 1), sim) THEN Frac(1, 1)
    ELSE sim

\* (m + 1.0) / 2.0 of the float m
UnitScale(m) == FloatHalf(FloatAdd(m, ToDouble(Frac(1, 1))))

\* cosine_sim(a, b), from the cosine sklearn computes of a and b: a float
cosine_sim(sim) == UnitScale(ToDouble(clip(sim)))

\* [r.lower().strip() for r in keywords if r and r.strip()]
RECURSIVE CleanKeywords(_)
CleanKeywords(keywords) ==
    IF keywords = <<>> THEN <<>>
    ELSE LET r == Head(keywords)
         IN  (IF r # None /\ r # <<>> /\ strip(r) # <<>>
              THEN <<strip(lower(r))>> ELSE <<>>)
             \o CleanKeywords(Tail(keywords))

\* Hits without the break of the inner loop
HitsNoBreak(r, res) ==
    IF r \in ToSet(res) THEN 1
    ELSE Cardinality({i \in 1..Len(res) : contains(res[i], r) \/ contains(r, res[i])})

\* what one required term r adds to `matched` in keyword_match_ratio
Hits(r, res) ==
    IF r \in ToSet(res) THEN 1
    ELSE IF \E i \in 1..Len(res) : contains(res[i], r) \/ contains(r, res[i]) THEN 1
    ELSE 0

\* `matched` after the loop over req
RECURSIVE MatchedCount(_, _)
MatchedCount(req, res) ==
    IF req = <<>> THEN 0
    ELSE Hits(Head(req), res) + MatchedCount(Tail(req), res)

\* keyword_match_ratio(required_keywords, resume_keywords)
keyword_match_ratio(required_keywords, resume_keywords) ==
    IF required_keywords = NoList \/ required_keywords = <<>> THEN Frac(0, 1)
    ELSE LET req == CleanKeywords(required_keywords)
             res == CleanKeywords(resume_keywords)
         IN  IF req = <<>> THEN Frac(0, 1)
             ELSE LET ratio == Frac(MatchedCount(req, res), Len(req))
                  IN  IF FracLess(ratio, Frac(0, 1)) THEN Frac(0, 1)
                      ELSE IF FracLess(Frac(1, 1), ratio) THEN Frac(1, 1)
                      ELSE ratio

\* the truth value of a list: None and [] are false
Truthy(xs) == xs # NoList /\ xs # <<>>

\* KeywordRatio with the fallback taken only when resume_skills is None
KeywordRatioNoneOnly(resume_text, resume_skills, job_required_skills) ==
    IF Truthy(job_required_skills) /\ resume_skills # NoList
    THEN keyword_match_ratio(job_required_skills, resume_skills)
    ELSE IF Truthy(job_required_skills)
    THEN Frac(Cardinality({i \in 1..Len(job_required_skills) :
                    contains(lower(resume_text), lower(job_required_skills[i]))}),
              Len(job_required_skills))
    ELSE Frac(0, 1)

\* step 2 of match_resume_to_job: kw_ratio
KeywordRatio(resume_text, resume_skills, job_required_skills) ==
    IF Truthy(job_required_skills) /\ Truthy(resume_skills)
    THEN keyword_match_ratio(job_required_skills, resume_skills)
    ELSE IF Truthy(job_required_skills)
    THEN Frac(Cardinality({i \in 1..Len(job_required_skills) :
                    contains(lower(resume_text), lower(job_required_skills[i]))}),
              Len(job_required_skills))
    ELSE Frac(0, 1)

\* step 3 of match_resume_to_job: final_score_0_100
FinalScore(semantic_weight, keyword_weight, semantic_sim, kw_ratio) ==
    LET combined == FloatAdd(FloatMul(ToDouble(semantic_weight), semantic_sim),
                             FloatMul(ToDouble(keyword_weight), ToDouble(kw_ratio)))
    IN  RoundDouble(FloatMul(combined, ToDouble(Frac(100, 1))), 2)

\* the list `matches`: (i, j, pair_sims[i, j]) by rows; indices from 1
PairList(pair_sims, r_count, j_count) ==
    [k \in 1..(r_count * j_count) |->
        LET i == ((k - 1) \div j_count) + 1
            j == ((k - 1) % j_count) + 1
        IN  <<i, j, pair_sims[i][j]>>]

\* InsertDesc that puts m before the elements of its own score
InsertDescBeforeTies(done, m) ==
    LET n == Cardinality({k \in 1..Len(done) : FracLess(m[3], done[k][3])})
    IN  SubSeq(done, 1, n) \o <<m>> \o SubSeq(done, n + 1, Len(done))

\* one step of the stable descending sort: m goes after every element that
\* scores at least as high
InsertDesc(done, m) ==
    LET n == Cardinality({k \in 1..Len(done) : FracLeq(m[3], done[k][3])})
    IN  SubSeq(done, 1, n) \o <<m>> \o SubSeq(done, n + 1, Len(done))

\* sorted(matches, key=lambda x: x[2], reverse=True)
RECURSIVE SortDesc(_, _)
SortDesc(done, rest) ==
    IF rest = <<>> THEN done
    ELSE SortDesc(InsertDesc(done, Head(rest)), Tail(rest))

\* the number of pairs kept
TopN == 6

\* step 4 of match_resume_to_job when the pairwise cosines are computed
TopMatches(resume_sentences, job_sentences, pair_sims) ==
    LET matches == PairList(pair_sims, Len(resume_sentences), Len(job_sentences))
        ordered == SortDesc(<<>>, matches)
        matches_sorted == SubSeq(ordered, 1, IF Len(ordered) < TopN THEN Len(ordered) ELSE TopN)
    IN  [k \in 1..Len(matches_sorted) |->
            LET m == matches_sorted[k]
            IN  [resume_snippet |-> resume_sentences[m[1]],
                 job_snippet    |-> job_sentences[m[2]],
                 cosine         |-> RoundDouble(UnitScale(ToDouble(m[3])), 4)]]

\* the report match_resume_to_job returns, given the cosine of the two pooled
\* vectors and the list top_matches
MatchReport(a, sim, top_matches) ==
    LET resume_sentences == Units(a.resume_text)
        job_sentences    == Units(a.job_text)
        semantic_sim     == cosine_sim(sim)
        kw_ratio == KeywordRatio(a.resume_text, a.resume_skills, a.job_required_skills)
    IN  [semantic_sim  |-> RoundDouble(semantic_sim, 4),
         keyword_ratio |-> round(kw_ratio, 4),
         final_score   |-> FinalScore(a.semantic_weight, a.keyword_weight,
                                      semantic_sim, kw_ratio),
         weights       |-> [semantic |-> a.semantic_weight, keyword |-> a.keyword_weight],
         top_matches   |-> top_matches,
         meta          |-> [resume_sentences |-> Len(resume_sentences),
                            job_sentences    |-> Len(job_sentences)]]

-----------------------------------------------------------------------------
(* The text normalizers: resume_cleaner.normalize_formatting,              *)
(* parser_job.normalize_text and skill_extractor.normalize.                *)

\* re.sub(r"<[^>]+>", " ", text): from the left, a "<" followed by at least
\* one character other than ">" and then a ">" becomes one blank
RECURSIVE SubTags(_)
SubTags(text) ==
    IF text = <<>> THEN <<>>
    ELSE LET closes == {g \in 2..Len(text) : text[g] = ">"}
             g == CHOOSE x \in closes : \A y \in closes : x <= y
         IN  IF text[1] = "<" /\ closes # {} /\ g >= 3
             THEN <<" ">> \o SubTags(SubSeq(text, g + 1, Len(text)))
             ELSE <<text[1]>> \o SubTags(Tail(text))

\* the character class of emoji_pattern
IsEmoji(c) ==
    LET n == CodePoint[c]
    IN  \/ n >= 128512 /\ n <= 128591
        \/ n >= 127744 /\ n <= 128511
        \/ n >= 128640 /\ n <= 128767
        \/ n >= 127456 /\ n <= 127487

NotEmoji(c) == ~IsEmoji(c)

\* emoji_pattern.sub("", text)
SubEmoji(text) == SelectSeq(text, NotEmoji)

\* re.sub(r"\s+", " ", text): every run of whitespace becomes one blank
RECURSIVE SubSpaces(_)
SubSpaces(text) ==
    IF text = <<>> THEN <<>>
    ELSE IF IsSpace(text[1])
    THEN IF Len(text) >= 2 /\ IsSpace(text[2])
         THEN SubSpaces(Tail(text))
         ELSE <<" ">> \o SubSpaces(Tail(text))
    ELSE <<text[1]>> \o SubSpaces(Tail(text))

\* normalize_formatting with the emoji removed after the whitespace is collapsed
normalize_formatting_emoji_last(text) == strip(SubEmoji(SubSpaces(SubTags(text))))

\* normalize_formatting(text), text a string
normalize_formatting(text) == strip(SubSpaces(SubEmoji(SubTags(text))))

\* normalize_text without the collapse of whitespace
normalize_text_keep_lines(text) ==
    IF text = None \/ text = <<>> THEN <<>>
    ELSE strip(SubTags(text))

\* normalize_text(text)
normalize_text(text) ==
    IF text = None \/ text = <<>> THEN <<>>
    ELSE strip(SubSpaces(SubTags(text)))

\* skill_extractor.normalize(text), text a string
extractor_normalize(text) == lower(strip(SubSpaces(SubTags(text))))

-----------------------------------------------------------------------------
(* The process: one call of one operation.                                 *)

\* the environment has not been called
NoEnv == [fault |-> "none"]

\* no outcome yet
NoRet == [raised |-> FALSE, value |-> None]

Returned(v) == [raised |-> FALSE, value |-> v]

\* the call ended by raising e
Raised(e) == [raised |-> TRUE, value |-> e]

\* raw taxonomy terms and skill strings the calls are drawn from
s_AWS      == <<"A", "W", "S">>
s_aws      == <<"a", "w", "s">>
s_AWS_pad  == <<" ", "A", "W", "S", " ">>
s_git      == <<"g", "i", "t">>
s_Teamwork == <<"T", "e", "a", "m", "w", "o", "r", "k">>
s_teamwork == <<"t", "e", "a", "m", "w", "o", "r", "k">>

\* one domain of skills_dubai.json: one term in any of the three categories
DomainRecs ==
    UNION {[Skills : {<<>>, <<t>>}, Tools : {<<>>, <<t>>}, Cloud : {<<>>, <<t>>}] :
            t \in {s_AWS, s_teamwork}}

\* domains of a two-domain file
SmallDomainRecs ==
    {[Skills |-> <<s_AWS>>, Tools |-> <<>>, Cloud |-> <<>>],
     [Skills |-> <<>>, Tools |-> <<s_teamwork>>, Cloud |-> <<s_AWS>>],
     [Skills |-> <<>>, Tools |-> <<>>, Cloud |-> <<>>]}

\* the contents skills_dubai.json may have
TaxonomyData ==
    {<<d>> : d \in DomainRecs} \cup {<<d, e>> : d \in SmallDomainRecs, e \in SmallDomainRecs}

\* the skill strings of a request
SkillInputs == {s_aws, s_AWS_pad, s_git, s_Teamwork}

InitMissing ==
    /\ pc = "call"
    /\ op = "detect_missing_skills"
    /\ args \in [resume_skills : ListsUpTo(SkillInputs, MaxSkillList),
                 job_required_skills : ListsUpTo(SkillInputs, MaxSkillList)]
    /\ ret = NoRet
    /\ env = NoEnv
    /\ MODEL = NoModel
    /\ DUBAI_SKILLS \in TaxonomyData

\* the call of detect_missing_skills
DetectMissingSkills ==
    /\ pc = "call"
    /\ op = "detect_missing_skills"
    /\ ret' = Returned(detect_missing_skills(args.resume_skills, args.job_required_skills))
    /\ pc' = "done"
    /\ UNCHANGED <<op, args, env, MODEL, DUBAI_SKILLS>>

NextMissing == DetectMissingSkills

SpecMissing == InitMissing /\ [][NextMissing]_vars

\* a call of detect_missing_skills has returned
MissingDone == pc = "done" /\ op = "detect_missing_skills" /\ ~ret.raised

\* the normalized skills of a list, as a set
NormSet(xs) == {lower(strip(xs[i])) : i \in 1..Len(xs)}

\* C1: the four missing buckets of detect_missing_skills(R, J) are pairwise
\* disjoint, their union together with matched_skills is the set of the
\* normalized elements of J, and matched_skills is normalize(R) intersected
\* with normalize(J).
C1_BucketsPartition ==
    MissingDone =>
        LET v == ret.value
            H == ToSet(v.missing_hard_skills)
            S == ToSet(v.missing_soft_skills)
            T == ToSet(v.missing_tools)
            C == ToSet(v.missing_cloud)
            M == ToSet(v.matched_skills)
        IN  /\ H \cap S = {} /\ H \cap T = {} /\ H \cap C = {}
            /\ S \cap T = {} /\ S \cap C = {} /\ T \cap C = {}
            /\ H \cup S \cup T \cup C \cup M = NormSet(args.job_required_skills)
            /\ M = NormSet(args.resume_skills) \cap NormSet(args.job_required_skills)

\* C1 witness: a call returned a matched skill that the two lists spell
\* differently, next to a missing skill that two taxonomies hold
C1_Witness ==
    /\ MissingDone
    /\ ret.value.matched_skills = <<s_aws>>
    /\ s_aws \notin ToSet(args.resume_skills) \cap ToSet(args.job_required_skills)
    /\ ret.value.missing_soft_skills = <<s_teamwork>>
    /\ InList(s_teamwork, FLAT.tools)

\* C2: every missing skill is in exactly one bucket, the one of the first
\* taxonomy holding it in the order hard, soft, tools, cloud, and the hard
\* bucket when no taxonomy holds it.
C2_FirstTaxonomyWins ==
    MissingDone =>
        LET v == ret.value
            missing == NormSet(args.job_required_skills) \ NormSet(args.resume_skills)
            inH(s) == InList(s, v.missing_hard_skills)
            inS(s) == InList(s, v.missing_soft_skills)
            inT(s) == InList(s, v.missing_tools)
            inC(s) == InList(s, v.missing_cloud)
            hard(s)  == InList(s, FLAT.hard)
            soft(s)  == InList(s, FLAT.soft)
            tools(s) == InList(s, FLAT.tools)
            cloud(s) == InList(s, FLAT.cloud)
        IN  \A s \in missing :
                /\ hard(s) => inH(s) /\ ~inS(s) /\ ~inT(s) /\ ~inC(s)
                /\ ~hard(s) /\ soft(s) => ~inH(s) /\ inS(s) /\ ~inT(s) /\ ~inC(s)
                /\ ~hard(s) /\ ~soft(s) /\ tools(s) => ~inH(s) /\ ~inS(s) /\ inT(s) /\ ~inC(s)
                /\ ~hard(s) /\ ~soft(s) /\ ~tools(s) /\ cloud(s) =>
                        ~inH(s) /\ ~inS(s) /\ ~inT(s) /\ inC(s)
                /\ ~hard(s) /\ ~soft(s) /\ ~tools(s) /\ ~cloud(s) =>
                        inH(s) /\ ~inS(s) /\ ~inT(s) /\ ~inC(s)

\* C2 witness: one call classified a skill that the hard and the soft
\* taxonomy both hold, and a skill no taxonomy holds
C2_Witness ==
    /\ MissingDone
    /\ InList(s_teamwork, FLAT.hard) /\ InList(s_teamwork, FLAT.soft)
    /\ ret.value.missing_hard_skills = <<s_git, s_teamwork>>
    /\ ~InList(s_git, FLAT.hard)

-----------------------------------------------------------------------------
(* keyword_match_ratio, called on its own.                                 *)

s_blank  == <<" ">>
s_a      == <<"a">>
s_b      == <<"b">>
s_AB_pad == <<"A", "B", " ">>

\* the keyword strings of a request
KwInputs == {s_blank, s_a, s_b, s_AB_pad}

InitKeyword ==
    /\ pc = "call"
    /\ op = "keyword_match_ratio"
    /\ args \in [required_keywords : ListsUpTo(KwInputs \cup {<<>>}, MaxSkillList),
                 resume_keywords : ListsUpTo(KwInputs \cup {<<>>}, MaxSkillList)]
    /\ ret = NoRet
    /\ env = NoEnv
    /\ MODEL = NoModel
    /\ DUBAI_SKILLS = <<>>

\* the call of keyword_match_ratio
KeywordMatchRatio ==
    /\ pc = "call"
    /\ op = "keyword_match_ratio"
    /\ ret' = Returned(keyword_match_ratio(args.required_keywords, args.resume_keywords))
    /\ pc' = "done"
    /\ UNCHANGED <<op, args, env, MODEL, DUBAI_SKILLS>>

NextKeyword == KeywordMatchRatio

SpecKeyword == InitKeyword /\ [][NextKeyword]_vars

-----------------------------------------------------------------------------
(* match_resume_to_job: one call, with the embedding provider and sklearn  *)
(* as the environment.                                                     *)

\* the default model_name
DefaultModelName == "sentence-transformers/all-mpnet-base-v2"

\* the cosines of two pooled vectors, rounding error outside [-1, 1] included
SimVals == {Frac(-5, 4), Frac(0, 4), Frac(5, 4)}

\* the cosines of one resume unit and one job unit
ScoreVals == {Frac(-4, 4), Frac(0, 4), Frac(4, 4)}

\* cosine_similarity(resume_embs, job_embs): one row per resume unit
PairSims(r_count, j_count) == [1..r_count -> [1..j_count -> ScoreVals]]

\* SentenceTransformer(model_name) raises: nothing is cached
MatchLoadFails ==
    /\ MODEL = NoModel
    /\ env' = [fault |-> "load"]
    /\ ret' = Raised("SentenceTransformer")
    /\ MODEL' = MODEL

\* model.encode raises in embed_texts
MatchEncodeFails ==
    /\ env' = [fault |-> "encode"]
    /\ ret' = Raised("encode")
    /\ MODEL' = get_embedding_model(args.model_name)

\* MatchPairwiseFails without the try/except around step 4
MatchPairwiseFailsUncaught ==
    /\ \E sim \in SimVals : env' = [fault |-> "pairwise", sim |-> sim]
    /\ ret' = Raised("cosine_similarity")
    /\ MODEL' = get_embedding_model(args.model_name)

\* cosine_similarity(resume_embs, job_embs) raises inside the try
MatchPairwiseFails ==
    /\ \E sim \in SimVals :
        /\ env' = [fault |-> "pairwise", sim |-> sim]
        /\ ret' = Returned(MatchReport(args, sim, <<>>))
    /\ MODEL' = get_embedding_model(args.model_name)

\* every step succeeds
MatchReturns ==
    /\ \E sim \in SimVals :
       \E report \in {MatchReport(args, sim, <<>>)} :
       \E pair_sims \in PairSims(Len(Units(args.resume_text)), Len(Units(args.job_text))) :
        /\ env' = [fault |-> "none", sim |-> sim, pair_sims |-> pair_sims]
        /\ ret' = Returned([report EXCEPT !.top_matches =
                      TopMatches(Units(args.resume_text), Units(args.job_text), pair_sims)])
    /\ MODEL' = get_embedding_model(args.model_name)

\* the call of match_resume_to_job
MatchResumeToJob ==
    /\ pc = "call"
    /\ op = "match_resume_to_job"
    /\ \/ MatchLoadFails
       \/ MatchEncodeFails
       \/ MatchPairwiseFails
       \/ MatchReturns
    /\ pc' = "done"
    /\ UNCHANGED <<op, args, DUBAI_SKILLS>>

NextMatch == MatchResumeToJob

\* the arguments of match_resume_to_job
MatchArgs(texts, skills, weights) ==
    {[resume_text |-> t[1], job_text |-> t[2],
      resume_skills |-> k[1], job_required_skills |-> k[2],
      model_name |-> DefaultModelName,
      semantic_weight |-> w[1], keyword_weight |-> w[2]] :
        t \in texts, k \in skills, w \in weights}

\* a process about to call match_resume_to_job
InitMatch(argset, models) ==
    /\ pc = "call"
    /\ op = "match_resume_to_job"
    /\ args \in argset
    /\ ret = NoRet
    /\ env = NoEnv
    /\ MODEL \in models
    /\ DUBAI_SKILLS = <<>>

\* semantic_weight = 0.6, keyword_weight = 0.4
DefaultWeights == <<Frac(6, 10), Frac(4, 10)>>

\* t1 + "\n" + t2 + ... of a list of lines
RECURSIVE JoinLines(_)
JoinLines(ls) ==
    IF ls = <<>> THEN <<>>
    ELSE IF Len(ls) = 1 THEN ls[1]
    ELSE ls[1] \o <<"\n">> \o JoinLines(Tail(ls))

\* the k-th line of a ranked text: "a", "b", ...
LineName(k) == <<CHOOSE c \in Chars : CodePoint[c] = 96 + k>>

\* the texts of 0 to MaxPairs lines "a", "b", ...
RankedTexts == {JoinLines([k \in 1..n |-> LineName(k)]) : n \in 0..MaxPairs}

\* requests whose pairs are ranked: at most MaxPairs pairs
TopArgs ==
    MatchArgs({t \in RankedTexts \X RankedTexts :
                    Len(Units(t[1])) * Len(Units(t[2])) <= MaxPairs},
              {<<NoList, NoList>>}, {DefaultWeights})

InitTop == InitMatch(TopArgs, {NoModel})

SpecTop == InitTop /\ [][NextMatch]_vars

\* the strings of at most n characters drawn from cs
StringsUpTo(cs, n) == UNION {[1..k -> cs] : k \in 0..n}

t_empty == <<>>
t_a     == <<"a">>
t_a_b   == <<"a", "\n", "b">>
t_AB_x  == <<"A", "B", " ", "x">>

\* requests whose one text is any short string of letters, blanks and newlines
UnitArgs ==
    LET any == StringsUpTo({"a", " ", "\n"}, MaxTextLen)
        few == {t_empty, t_a_b}
    IN  MatchArgs((any \X few) \cup (few \X any), {<<NoList, NoList>>}, {DefaultWeights})

InitUnits == InitMatch(UnitArgs, {NoModel, DefaultModelName})

SpecUnits == InitUnits /\ [][NextMatch]_vars

\* the skill lists of a request: a list, or None when the argument is left out
SkillArg == {NoList} \cup ListsUpTo(KwInputs, MaxSkillList)

\* requests with any two skill lists
KwArgs == MatchArgs({t_empty, t_AB_x} \X {t_a}, SkillArg \X SkillArg, {DefaultWeights})

InitKwMatch == InitMatch(KwArgs, {NoModel, DefaultModelName})

SpecKwMatch == InitKwMatch /\ [][NextMatch]_vars

\* the weights of a request; 100 * 0.00005 is a tie of round(..., 2) in
\* decimal that the float settles upwards
WeightVals == {Frac(0, 10), Frac(4, 10), Frac(6, 10), Frac(10, 10), Frac(5, 100000)}

\* requests with any two weights
ScoreArgs ==
    MatchArgs({<<t_a, t_a>>}, {NoList, <<s_a>>} \X {NoList, <<s_a>>, <<s_a, s_AB_pad>>, <<s_b>>},
              WeightVals \X WeightVals)

InitScore == InitMatch(ScoreArgs, {NoModel, DefaultModelName})

SpecScore == InitScore /\ [][NextMatch]_vars

-----------------------------------------------------------------------------
(* Properties of keyword_match_ratio and match_resume_to_job.              *)

\* a call of keyword_match_ratio has returned
KeywordDone == pc = "done" /\ op = "keyword_match_ratio" /\ ~ret.raised

\* a call of match_resume_to_job has ended
MatchDone == pc = "done" /\ op = "match_resume_to_job"

\* a call of match_resume_to_job has returned its report
MatchReturned == MatchDone /\ ~ret.raised

\* the keys of the report
ReportKeys ==
    {"semantic_sim", "keyword_ratio", "final_score", "weights", "top_matches", "meta"}

\* C4: keyword_match_ratio(J, R) is 0 when J is empty, and for all J and R
\* its result is matched / len(req) with 0 <= matched <= len(req), so it lies
\* in [0, 1] and the clamp changes nothing.
C4_KeywordRatioInUnitInterval ==
    KeywordDone =>
        LET req == CleanKeywords(args.required_keywords)
            res == CleanKeywords(args.resume_keywords)
            matched == MatchedCount(req, res)
        IN  /\ args.required_keywords = <<>> => ret.value = Frac(0, 1)
            /\ ret.value.den > 0
            /\ 0 <= ret.value.num /\ ret.value.num <= ret.value.den
            /\ 0 <= matched /\ matched <= Len(req)
            /\ req # <<>> => ret.value = Frac(matched, Len(req))

\* C4 witness: a required list with a blank string against a resume list
\* that holds one matching term twice returned 1/1
C4_Witness ==
    /\ KeywordDone
    /\ args.required_keywords = <<s_a, s_blank>>
    /\ args.resume_keywords = <<s_AB_pad, s_AB_pad>>
    /\ ret.value = Frac(1, 1)

\* the entries of a skill list that are not blank
SkillIdx(xs) == {i \in 1..Len(xs) : \E k \in 1..Len(xs[i]) : ~IsSpace(xs[i][k])}

\* equal, or one a substring of the other
Related(a, b) == a = b \/ contains(a, b) \/ contains(b, a)

\* the ratio of the required skills that match a resume skill, both sides
\* lowercased and trimmed; 0 when there is no required skill
ListRatio(J, R) ==
    LET matched == {i \in SkillIdx(J) :
                      \E j \in SkillIdx(R) :
                          Related(strip(lower(J[i])), strip(lower(R[j])))}
    IN  IF SkillIdx(J) = {} THEN Frac(0, 1)
        ELSE Frac(Cardinality(matched), Cardinality(SkillIdx(J)))

\* the ratio of the required skills whose lowercased form occurs in the
\* lowercased resume text
TextRatio(J, text) ==
    Frac(Cardinality({i \in 1..Len(J) : contains(lower(text), lower(J[i]))}), Len(J))

\* C3 as stated: whenever both skill lists are provided, an empty resume list
\* included, keyword_ratio is the ratio computed from the two lists only.
C3_Original ==
    MatchReturned /\ args.job_required_skills # NoList /\ args.resume_skills # NoList =>
        ret.value.keyword_ratio =
            round(ListRatio(args.job_required_skills, args.resume_skills), 4)

\* C3, amended: when both skill lists are non-empty, keyword_ratio is the
\* ratio computed from the two lists only (blank entries ignored); when the
\* required list is non-empty and the resume list is empty or left out, it is
\* the ratio of the required skills found in the lowercased resume text.
C3_KeywordRatioFromLists ==
    MatchReturned =>
        LET J == args.job_required_skills
            R == args.resume_skills
        IN  /\ Truthy(J) /\ Truthy(R) =>
                ret.value.keyword_ratio = round(ListRatio(J, R), 4)
            /\ Truthy(J) /\ ~Truthy(R) =>
                ret.value.keyword_ratio = round(TextRatio(J, args.resume_text), 4)
            /\ ~Truthy(J) => ret.value.keyword_ratio = Frac(0, 10000)

\* C3 witness: of two required skills one contains a resume skill and the
\* other matches none; the report holds 0.5
C3_Witness ==
    /\ MatchReturned
    /\ args.job_required_skills = <<s_AB_pad, s_b>>
    /\ args.resume_skills = <<s_a>>
    /\ ret.value.keyword_ratio = Frac(5000, 10000)

\* C5 as stated: final_score lies in [0, 100], semantic_sim and keyword_ratio
\* in [0, 1], whatever the two weights.
C5_ScoreRange ==
    MatchReturned =>
        /\ FracLeq(Frac(0, 1), ret.value.final_score)
        /\ FracLeq(ret.value.final_score, Frac(100, 1))
        /\ FracLeq(Frac(0, 1), ret.value.semantic_sim)
        /\ FracLeq(ret.value.semantic_sim, Frac(1, 1))
        /\ FracLeq(Frac(0, 1), ret.value.keyword_ratio)
        /\ FracLeq(ret.value.keyword_ratio, Frac(1, 1))

\* the index pair whose unit strings entry e of top_matches holds
PairOf(e, R, J) ==
    CHOOSE q \in (1..Len(R)) \X (1..Len(J)) :
        R[q[1]] = e.resume_snippet /\ J[q[2]] = e.job_snippet

\* pair p is met before pair q in the loops over i and j
Before(p, q) == p[1] < q[1] \/ (p[1] = q[1] /\ p[2] < q[2])

\* the cosine sklearn gave for pair q
Score(q) == env.pair_sims[q[1]][q[2]]

\* C6: top_matches holds min(6, resume units x job units) entries, each the
\* two unit strings of a pair of its own with that pair's cosine mapped to
\* [0, 1]; the cosines do not increase along the list; no pair left out
\* scores higher than a pair kept; pairs of equal score are in the order the
\* loops met them.
C6_TopMatchesRanked ==
    MatchReturned /\ env.fault = "none" =>
        LET top  == ret.value.top_matches
            R    == Units(args.resume_text)
            J    == Units(args.job_text)
            all  == (1..Len(R)) \X (1..Len(J))
            n    == Len(R) * Len(J)
            kept == {PairOf(top[k], R, J) : k \in 1..Len(top)}
        IN  /\ Len(top) = IF n < 6 THEN n ELSE 6
            /\ \A k \in 1..Len(top) :
                \E q \in all :
                    /\ top[k].resume_snippet = R[q[1]]
                    /\ top[k].job_snippet = J[q[2]]
                    /\ top[k].cosine =
                         RoundDouble(UnitScale(ToDouble(Score(q))), 4)
            /\ Cardinality(kept) = Len(top)
            /\ \A k \in 1..(Len(top) - 1) :
                LET p == PairOf(top[k], R, J)
                    q == PairOf(top[k + 1], R, J)
                IN  /\ FracLeq(top[k + 1].cosine, top[k].cosine)
                    /\ FracLeq(Score(q), Score(p))
                    /\ Score(p) = Score(q) => Before(p, q)
            /\ \A q \in all \ kept : \A p \in kept : FracLeq(Score(q), Score(p))

\* C6 witness: of seven pairs six were kept, two of them with the same score,
\* in the order of their resume units, and the first scoring higher than the last
C6_Witness ==
    /\ MatchReturned /\ env.fault = "none"
    /\ Len(Units(args.resume_text)) = 7 /\ Len(Units(args.job_text)) = 1
    /\ Len(ret.value.top_matches) = 6
    /\ FracLess(ret.value.top_matches[6].cosine, ret.value.top_matches[1].cosine)
    /\ ret.value.top_matches[1].cosine = ret.value.top_matches[2].cosine
    /\ ret.value.top_matches[1].resume_snippet = <<"b">>
    /\ ret.value.top_matches[1].job_snippet = <<"a">>
    /\ ret.value.top_matches[2].resume_snippet = <<"d">>
    /\ ret.value.top_matches[2].job_snippet = <<"a">>

\* C7 as stated: a failure of the embedding provider does not abort the
\* match; the report is returned with top_matches empty.
C7_Original ==
    MatchDone /\ env.fault \in {"load", "encode"} =>
        /\ ~ret.raised
        /\ DOMAIN ret.value = ReportKeys
        /\ ret.value.top_matches = <<>>

\* C7, amended: a failure of the pairwise-similarity step does not abort the
\* match, the report is returned with every field and top_matches empty; a
\* failure to load the model or to encode the units is raised to the caller.
C7_OnlyPairwiseFailureIsSwallowed ==
    MatchDone =>
        /\ env.fault = "pairwise" =>
            /\ ~ret.raised
            /\ DOMAIN ret.value = ReportKeys
            /\ ret.value.top_matches = <<>>
            /\ ret.value.semantic_sim = RoundDouble(cosine_sim(env.sim), 4)
            /\ ret.value.weights = [semantic |-> args.semantic_weight,
                                    keyword |-> args.keyword_weight]
        /\ env.fault \in {"load", "encode"} => ret.raised

\* C7 witness: the pairwise step failed on a request of several units and
\* the report came back with top_matches empty
C7_Witness ==
    /\ MatchReturned
    /\ env.fault = "pairwise"
    /\ ret.value.meta.resume_sentences = 2
    /\ ret.value.top_matches = <<>>
    /\ ret.value.final_score = Frac(6000, 100)

\* the positions at which a line of text starts
LineStarts(text) == {i \in 1..(Len(text) + 1) : i = 1 \/ text[i - 1] = "\n"}

\* the line of text that starts at position i
LineAt(text, i) ==
    LET stop == CHOOSE j \in i..(Len(text) + 1) :
                    /\ j = Len(text) + 1 \/ text[j] = "\n"
                    /\ \A k \in i..(j - 1) : text[k] # "\n"
    IN  SubSeq(text, i, stop - 1)

\* the lines of text that are not blank, in document order, or the whole
\* text when there is none
ExpectedUnits(text) ==
    LET starts == {i \in LineStarts(text) :
                      \E k \in 1..Len(LineAt(text, i)) : ~IsSpace(LineAt(text, i)[k])}
        nth(n) == CHOOSE i \in starts : Cardinality({j \in starts : j < i}) = n - 1
    IN  IF starts = {} THEN <<text>>
        ELSE [n \in 1..Cardinality(starts) |-> LineAt(text, nth(n))]

\* C8: each unit list is the non-blank lines of its text in document order,
\* or the whole text alone when no line is non-blank, so it is never empty;
\* when the model loads and encodes, the report is returned with every field
\* and with both unit counts at least 1.
C8_UnitsNeverEmpty ==
    MatchDone =>
        /\ \A text \in {args.resume_text, args.job_text} :
            /\ Units(text) = ExpectedUnits(text)
            /\ Len(Units(text)) >= 1
        /\ env.fault \notin {"load", "encode"} =>
            /\ ~ret.raised
            /\ DOMAIN ret.value = ReportKeys
            /\ ret.value.meta.resume_sentences = Len(ExpectedUnits(args.resume_text))
            /\ ret.value.meta.job_sentences = Len(ExpectedUnits(args.job_text))
            /\ ret.value.meta.resume_sentences >= 1
            /\ ret.value.meta.job_sentences >= 1
            /\ env.fault = "none" =>
                Len(ret.value.top_matches) =
                    ret.value.meta.resume_sentences * ret.value.meta.job_sentences

\* C8 witness: a resume text of blanks and a newline went through as the one
\* unit it is, against a job text of two lines
C8_Witness ==
    /\ MatchReturned
    /\ env.fault = "none"
    /\ args.resume_text = <<" ", "\n", " ">>
    /\ ret.value.meta.resume_sentences = 1
    /\ ret.value.meta.job_sentences = 2
    /\ ret.value.top_matches[1].resume_snippet = args.resume_text

-----------------------------------------------------------------------------
(* The normalizers: one call, and a second call on what the first returned. *)

NormOps == {"normalize_formatting", "normalize_text", "skill_extractor.normalize"}

\* the texts handed to a normalizer
NormTexts == StringsUpTo({"<", ">", "a", " ", "\n", "U+1F600"}, MaxNormLen)

InitNorm ==
    /\ pc = "call"
    /\ op \in NormOps
    /\ args \in [text : NormTexts \cup {None}]
    /\ ret = NoRet
    /\ env = NoEnv
    /\ MODEL = NoModel
    /\ DUBAI_SKILLS = <<>>

\* the call of normalize_formatting: re.sub raises TypeError on None
NormalizeFormatting ==
    /\ pc = "call"
    /\ op = "normalize_formatting"
    /\ ret' = IF args.text = None THEN Raised("TypeError")
              ELSE Returned(normalize_formatting(args.text))
    /\ pc' = "done"
    /\ UNCHANGED <<op, args, env, MODEL, DUBAI_SKILLS>>

\* the call of normalize_text
NormalizeText ==
    /\ pc = "call"
    /\ op = "normalize_text"
    /\ ret' = Returned(normalize_text(args.text))
    /\ pc' = "done"
    /\ UNCHANGED <<op, args, env, MODEL, DUBAI_SKILLS>>

\* the call of skill_extractor.normalize, the first statement of
\* extract_skills: re.sub raises TypeError on None
ExtractorNormalize ==
    /\ pc = "call"
    /\ op = "skill_extractor.normalize"
    /\ ret' = IF args.text = None THEN Raised("TypeError")
              ELSE Returned(extractor_normalize(args.text))
    /\ pc' = "done"
    /\ UNCHANGED <<op, args, env, MODEL, DUBAI_SKILLS>>

\* the same normalizer called on the string it returned
NormalizeAgain ==
    /\ pc = "done"
    /\ op \in NormOps
    /\ ~ret.raised
    /\ ret' = [raised |-> FALSE, value |-> ret.value,
               again |-> CASE op = "normalize_formatting" -> normalize_formatting(ret.value)
                           [] op = "normalize_text" -> normalize_text(ret.value)
                           [] op = "skill_extractor.normalize" -> extractor_normalize(ret.value)]
    /\ pc' = "again"
    /\ UNCHANGED <<op, args, env, MODEL, DUBAI_SKILLS>>

NextNorm == NormalizeFormatting \/ NormalizeText \/ ExtractorNormalize \/ NormalizeAgain

SpecNorm == InitNorm /\ [][NextNorm]_vars

\* text holds a match of <[^>]+>
HasTag(text) ==
    \E i \in 1..Len(text) : \E j \in (i + 2)..Len(text) :
        /\ text[i] = "<" /\ text[j] = ">"
        /\ \A k \in (i + 1)..(j - 1) : text[k] # ">"

\* C9: normalize_formatting and normalize_text are idempotent: what the
\* first call returns holds no tag, no emoji (normalize_formatting), no
\* whitespace but single blanks between other characters, and the second
\* call returns it unchanged.
C9_NormalizeIdempotent ==
    op \in {"normalize_formatting", "normalize_text"} =>
        /\ pc = "done" /\ ~ret.raised =>
            LET v == ret.value
            IN  /\ ~HasTag(v)
                /\ op = "normalize_formatting" => \A i \in 1..Len(v) : ~IsEmoji(v[i])
                /\ \A i \in 1..Len(v) : IsSpace(v[i]) => v[i] = " " /\ 1 < i /\ i < Len(v)
                /\ \A i \in 1..(Len(v) - 1) : ~(IsSpace(v[i]) /\ IsSpace(v[i + 1]))
        /\ pc = "again" => ret.again = ret.value

\* C9 witness: normalize_formatting was called again on what it returned
\* for a text that starts with a tag and an emoji
C9_Witness ==
    /\ pc = "again"
    /\ op = "normalize_formatting"
    /\ args.text = <<"<", "a", ">", "U+1F600", "a">>
    /\ ret.value = <<"a">>
    /\ ret.again = <<"a">>

\* C10 as stated: given null or the empty string, a normalizer returns the
\* empty string and does not raise.
C10_NullOrEmptyNeverRaises ==
    pc = "done" /\ op \in NormOps /\ (args.text = None \/ args.text = <<>>) =>
        ~ret.raised /\ ret.value = <<>>

-----------------------------------------------------------------------------
(* resume_cleaner.py: the regular expressions.                             *)

IsDigit(c) == CodePoint[c] >= 48 /\ CodePoint[c] <= 57

\* [a-zA-Z0-9]
IsAlnum(c) ==
    \/ IsDigit(c)
    \/ CodePoint[c] >= 65 /\ CodePoint[c] <= 90
    \/ CodePoint[c] >= 97 /\ CodePoint[c] <= 122

\* the three character classes of EMAIL_RE
EmailLocal(c) == IsAlnum(c) \/ c \in {"_", ".", "+", "-"}

EmailDomain(c) == IsAlnum(c) \/ c = "-"

EmailTail(c) == IsAlnum(c) \/ c \in {"-", "."}

\* where the longest run of characters of the first class that starts after
\* the first p characters of s ends: a greedy [...]+ or [...]*
LocalRunEnd(s, p) ==
    CHOOSE q \in p..Len(s) :
        /\ \A i \in (p + 1)..q : EmailLocal(s[i])
        /\ q = Len(s) \/ ~EmailLocal(s[q + 1])

\* the same for the second class
DomainRunEnd(s, p) ==
    CHOOSE q \in p..Len(s) :
        /\ \A i \in (p + 1)..q : EmailDomain(s[i])
        /\ q = Len(s) \/ ~EmailDomain(s[q + 1])

\* the same for the third class
TailRunEnd(s, p) ==
    CHOOSE q \in p..Len(s) :
        /\ \A i \in (p + 1)..q : EmailTail(s[i])
        /\ q = Len(s) \/ ~EmailTail(s[q + 1])

\* EMAIL_RE.match at offset p: the offset where the match ends, or -1.
\* "@" is not in the first class and "." is not in the second, so each
\* greedy run is followed at once by the literal or the match fails.
EmailMatchEnd(s, p) ==
    LET a == LocalRunEnd(s, p)
    IN  IF a = p \/ a >= Len(s) \/ s[a + 1] # "@" THEN -1
        ELSE LET b == DomainRunEnd(s, a + 1)
             IN  IF b = a + 1 \/ b >= Len(s) \/ s[b + 1] # "." THEN -1
                 ELSE LET c == TailRunEnd(s, b + 1)
                      IN  IF c = b + 1 THEN -1 ELSE c

\* EMAIL_RE.findall(s), scanning from offset p: the leftmost match, then
\* on from where it ends
RECURSIVE EmailFindallFrom(_, _)
EmailFindallFrom(s, p) ==
    LET starts == {q \in p..(Len(s) - 1) : EmailMatchEnd(s, q) # -1}
    IN  IF starts = {} THEN <<>>
        ELSE LET q == CHOOSE x \in starts : \A y \in starts : x <= y
                 e == EmailMatchEnd(s, q)
             IN  <<SubSeq(s, q + 1, e)>> \o EmailFindallFrom(s, e)

EMAIL_RE_findall(s) == EmailFindallFrom(s, 0)

EMAIL_RE_search(s) == \E p \in 0..(Len(s) - 1) : EmailMatchEnd(s, p) # -1

\* [\s-]
PhoneSep(c) == IsSpace(c) \/ c = "-"

\* s[a..b] exists and is all digits
AllDigits(s, a, b) == b <= Len(s) /\ \A i \in a..b : IsDigit(s[i])

\* the offset after an optional character c at offset p
SkipOpt(s, p, c) == IF p < Len(s) /\ s[p + 1] = c THEN p + 1 ELSE p

\* the offset after an optional [\s-] at offset p
SkipSep(s, p) == IF p < Len(s) /\ PhoneSep(s[p + 1]) THEN p + 1 ELSE p

\* (\+?\d{1,3}[\s-])? at offset p, taken (c1 = 1) with n1 digits or left
\* out (c1 = 0): the offset where it ends, or -1
PhoneG1End(s, p, c1, n1) ==
    IF c1 = 0 THEN p
    ELSE LET q == SkipOpt(s, p, "+")
         IN  IF AllDigits(s, q + 1, q + n1) /\ q + n1 < Len(s) /\ PhoneSep(s[q + n1 + 1])
             THEN q + n1 + 1 ELSE -1

\* (?:\(?\d{2,4}\)?[\s-]?)? at offset p, taken with n2 digits or left out
PhoneG2End(s, p, c2, n2) ==
    IF p = -1 THEN -1
    ELSE IF c2 = 0 THEN p
    ELSE LET q == SkipOpt(s, p, "(")
         IN  IF AllDigits(s, q + 1, q + n2)
             THEN SkipSep(s, SkipOpt(s, q + n2, ")")) ELSE -1

\* \d{3,4}[\s-]?\d{3,4} at offset p, with n3 and n4 digits
PhoneTailEnd(s, p, n3, n4) ==
    IF p = -1 THEN -1
    ELSE IF ~AllDigits(s, p + 1, p + n3) THEN -1
    ELSE LET q == SkipSep(s, p + n3)
         IN  IF AllDigits(s, q + 1, q + n4) THEN q + n4 ELSE -1

\* the ways PHONE_RE may be matched: which optional groups are taken and how
\* many digits each \d{m,n} takes. An optional single character is taken
\* whenever it is there, since what follows it is always a digit.
PhoneChoices ==
    {t \in (0..1) \X (1..3) \X (0..1) \X (2..4) \X (3..4) \X (3..4) :
        /\ t[1] = 0 => t[2] = 1
        /\ t[3] = 0 => t[4] = 2}

\* the order in which the backtracking matcher tries them: greedy, the
\* earlier choice weighing more
PhoneRank(t) == ((((t[1] * 4 + t[2]) * 2 + t[3]) * 5 + t[4]) * 5 + t[5]) * 5 + t[6]

PhoneEnd(s, p, t) ==
    PhoneTailEnd(s, PhoneG2End(s, PhoneG1End(s, p, t[1], t[2]), t[3], t[4]), t[5], t[6])

\* the characters a match of PHONE_RE can start with
PhoneStart(c) == IsDigit(c) \/ c \in {"+", "("}

\* PHONE_RE.match at offset p: [end, group1] of the match, or [end |-> -1]
PhoneMatch(s, p) ==
    LET ok == IF p < Len(s) /\ PhoneStart(s[p + 1])
              THEN {t \in PhoneChoices : PhoneEnd(s, p, t) # -1} ELSE {}
    IN  IF ok = {} THEN [end |-> -1, group1 |-> <<>>]
        ELSE LET t == CHOOSE x \in ok : \A y \in ok : PhoneRank(y) <= PhoneRank(x)
             IN  [end |-> PhoneEnd(s, p, t),
                  group1 |-> IF t[1] = 1 THEN SubSeq(s, p + 1, PhoneG1End(s, p, t[1], t[2]))
                             ELSE <<>>]

\* PHONE_RE.findall(s), scanning from offset p: the pattern has one
\* capturing group, so findall returns what group 1 matched, "" when the
\* group took no part in the match
RECURSIVE PhoneFindallFrom(_, _)
PhoneFindallFrom(s, p) ==
    LET starts == {q \in p..(Len(s) - 1) : PhoneMatch(s, q).end # -1}
    IN  IF starts = {} THEN <<>>
        ELSE LET q == CHOOSE x \in starts : \A y \in starts : x <= y
                 m == PhoneMatch(s, q)
             IN  <<m.group1>> \o PhoneFindallFrom(s, m.end)

PHONE_RE_findall(s) == PhoneFindallFrom(s, 0)

PHONE_RE_search(s) == \E p \in 0..(Len(s) - 1) : PhoneMatch(s, p).end # -1

-----------------------------------------------------------------------------
(* resume_cleaner.py: the document segmenter.                              *)

\* text.splitlines(); "\n" is the one line boundary among the characters of
\* the model
RECURSIVE splitlines(_)
splitlines(text) ==
    IF text = <<>> THEN <<>>
    ELSE IF \A i \in 1..Len(text) : text[i] # "\n" THEN <<text>>
    ELSE LET i == CHOOSE k \in 1..Len(text) :
                      text[k] = "\n" /\ \A m \in 1..(k - 1) : text[m] # "\n"
         IN  <<SubSeq(text, 1, i - 1)>> \o splitlines(SubSeq(text, i + 1, Len(text)))

\* len(ln.split()): the number of runs of non-whitespace characters
WordCount(ln) ==
    Cardinality({i \in 1..Len(ln) : ~IsSpace(ln[i]) /\ (i = 1 \/ IsSpace(ln[i - 1]))})

\* [ln.strip() for ln in lines]
StripAll(lines) == [i \in 1..Len(lines) |-> strip(lines[i])]

\* the test of the top block (line 34)
HeaderLike(ln) == EMAIL_RE_search(ln) \/ PHONE_RE_search(ln) \/ WordCount(ln) <= 5

\* the test of the bottom block (line 44)
FooterLike(ln) ==
    \/ contains(lower(ln), <<"p", "a", "g", "e">>) /\ \E i \in 1..Len(ln) : IsDigit(ln[i])
    \/ WordCount(ln) <= 4

\* lines[:n]
FirstLines(lines, n) == SubSeq(lines, 1, IF Len(lines) < n THEN Len(lines) ELSE n)

\* lines[-n:]
LastLines(lines, n) == SubSeq(lines, IF Len(lines) < n THEN 1 ELSE Len(lines) - n + 1, Len(lines))

\* the stripped non-blank lines of the document (line 26)
BodyLines(text) == StripAll(SelectSeq(splitlines(text), NonBlank))

\* DropHeader taking the header-like lines themselves out of the top block
DropHeaderLike(lines) ==
    LET header_lines == SelectSeq(FirstLines(lines, 6), HeaderLike)
        NotHeaderLike(ln) == ~HeaderLike(ln)
    IN  IF Len(header_lines) >= 2
        THEN SelectSeq(FirstLines(lines, 6), NotHeaderLike) \o SubSeq(lines, 7, Len(lines))
        ELSE lines

\* lines without its top block, when 2 or more of its first 6 lines are
\* header-like (lines 31-38)
DropHeader(lines) ==
    LET header_lines == SelectSeq(FirstLines(lines, 6), HeaderLike)
    IN  IF Len(header_lines) >= 2 THEN SubSeq(lines, Len(header_lines) + 1, Len(lines))
        ELSE lines

\* lines without its bottom block, when 2 or more of its last 6 lines are
\* footer-like (lines 41-47)
DropFooter(lines) ==
    LET footer_lines == SelectSeq(LastLines(lines, 6), FooterLike)
    IN  IF Len(footer_lines) >= 2 THEN SubSeq(lines, 1, Len(lines) - Len(footer_lines))
        ELSE lines

\* remove_headers_footers(text)
remove_headers_footers(text) ==
    IF text = None \/ text = <<>> THEN <<>>
    ELSE JoinLines(DropFooter(DropHeader(BodyLines(text))))

\* extract_contact_info(text), text a string. list(set(...)) leaves the
\* order of the elements to the hashing of strings: the model keeps the sets.
extract_contact_info(text) ==
    [emails |-> ToSet(EMAIL_RE_findall(text)),
     phones |-> ToSet(PHONE_RE_findall(text)) \ {<<>>}]

SECTION_HEADERS ==
    << <<"s", "u", "m", "m", "a", "r", "y">>,
       <<"p", "r", "o", "f", "e", "s", "s", "i", "o", "n", "a", "l", " ", "s", "u", "m", "m", "a", "r", "y">>,
       <<"e", "x", "p", "e", "r", "i", "e", "n", "c", "e">>,
       <<"w", "o", "r", "k", " ", "e", "x", "p", "e", "r", "i", "e", "n", "c", "e">>,
       <<"e", "m", "p", "l", "o", "y", "m", "e", "n", "t", " ", "h", "i", "s", "t", "o", "r", "y">>,
       <<"e", "d", "u", "c", "a", "t", "i", "o", "n">>,
       <<"s", "k", "i", "l", "l", "s">>,
       <<"t", "e", "c", "h", "n", "i", "c", "a", "l", " ", "s", "k", "i", "l", "l", "s">>,
       <<"p", "r", "o", "j", "e", "c", "t", "s">>,
       <<"c", "e", "r", "t", "i", "f", "i", "c", "a", "t", "i", "o", "n", "s">>,
       <<"a", "c", "h", "i", "e", "v", "e", "m", "e", "n", "t", "s">>,
       <<"p", "u", "b", "l", "i", "c", "a", "t", "i", "o", "n", "s">>,
       <<"i", "n", "t", "e", "r", "e", "s", "t", "s">>,
       <<"c", "o", "n", "t", "a", "c", "t">>,
       <<"o", "b", "j", "e", "c", "t", "i", "v", "e">> >>

\* s.startswith(prefix)
startswith(s, prefix) == Len(prefix) <= Len(s) /\ SubSeq(s, 1, Len(prefix)) = prefix

\* the line starts with one of SECTION_HEADERS
IsResumeHeader(ln) ==
    \E k \in 1..Len(SECTION_HEADERS) : startswith(strip(lower(ln)), SECTION_HEADERS[k])

\* the first of SECTION_HEADERS the line starts with (the loop breaks there)
ResumeHeaderOf(ln) ==
    LET hits == {k \in 1..Len(SECTION_HEADERS) : startswith(strip(lower(ln)), SECTION_HEADERS[k])}
    IN  SECTION_HEADERS[CHOOSE k \in hits : \A j \in hits : k <= j]

\* the elements of a set of integers, ascending
Ascending(S) ==
    [k \in 1..Cardinality(S) |-> CHOOSE x \in S : Cardinality({y \in S : y < x}) = k - 1]


\* lines[start:end] of the i-th header: after it, up to the next header
ContentLines(lines, positions, i) ==
    SubSeq(lines, positions[i] + 1,
           IF i < Len(positions) THEN positions[i + 1] - 1 ELSE Len(lines))

\* a dict, in insertion order: d[key] or default
DictGet(d, key, default) ==
    IF \E i \in 1..Len(d) : d[i].key = key
    THEN d[CHOOSE i \in 1..Len(d) : d[i].key = key].value
    ELSE default

\* sections[header].extend(content_lines), sections a defaultdict(list)
DictExtend(d, key, content_lines) ==
    IF \E i \in 1..Len(d) : d[i].key = key
    THEN [i \in 1..Len(d) |->
            IF d[i].key = key THEN [key |-> key, value |-> d[i].value \o content_lines]
            ELSE d[i]]
    ELSE Append(d, [key |-> key, value |-> content_lines])

\* the loop of lines 113-117, from the i-th header on
RECURSIVE CollectSections(_, _, _, _)
CollectSections(lines, positions, i, sections) ==
    IF i > Len(positions) THEN sections
    ELSE CollectSections(lines, positions, i + 1,
             DictExtend(sections, ResumeHeaderOf(lines[positions[i]]),
                        ContentLines(lines, positions, i)))

\* {k: "\n".join(v).strip() for k, v in sections.items()}
JoinValues(sections) ==
    [i \in 1..Len(sections) |->
        [key |-> sections[i].key, value |-> strip(JoinLines(sections[i].value))]]

\* split_sections_by_headers(text), text a string
split_sections_by_headers(text) ==
    LET lines == splitlines(text)
        header_positions == Ascending({i \in 1..Len(lines) : IsResumeHeader(lines[i])})
    IN  IF header_positions = <<>>
        THEN <<[key |-> <<"c", "o", "n", "t", "e", "n", "t">>, value |-> strip(text)]>>
        ELSE JoinValues(CollectSections(lines, header_positions, 1, <<>>))

\* the dict with no key
EmptyDict == <<>>

\* build_clean_resume_json(raw_text): the fields the code computes itself.
\* summary, skills and experience come from the linguistic analyzer (spaCy)
\* and are left out.
build_clean_resume_json(raw_text) ==
    IF raw_text = None \/ raw_text = <<>> THEN EmptyDict
    ELSE LET step1 == remove_headers_footers(raw_text)
             step2 == normalize_formatting(step1)
             sections == split_sections_by_headers(step1)
         IN  [raw_text |-> raw_text,
              clean_text |-> step2,
              contact |-> extract_contact_info(step2),
              education |-> strip(DictGet(sections, <<"e", "d", "u", "c", "a", "t", "i", "o", "n">>, <<>>)),
              projects |-> strip(DictGet(sections, <<"p", "r", "o", "j", "e", "c", "t", "s">>, <<>>)),
              sections_raw |-> sections]

-----------------------------------------------------------------------------
(* Calls of build_clean_resume_json.                                       *)

\* most lines of a resume handed to build_clean_resume_json
MaxDocLines == 3

\* the lines resumes are made of
l_blank  == <<>>
l_short  == <<"x">>
l_long   == <<"a", " ", "a", " ", "a", " ", "a", " ", "a", " ", "a">>
l_email  == <<"a", "@", "b", ".", "c", "o">>
l_phone  == <<"+", "1", " ", "5", "5", "5", "-", "1", "2", "3", "4">>
l_skills == <<"s", "k", "i", "l", "l", "s">>

ResumeLines == {l_blank, l_short, l_long, l_email, l_phone, l_skills}

\* the documents of at most n lines drawn from ls
DocsOf(ls, n) == {JoinLines(d) : d \in ListsUpTo(ls, n)}

InitResume ==
    /\ pc = "call"
    /\ op = "build_clean_resume_json"
    /\ args \in [raw_text : DocsOf(ResumeLines, MaxDocLines) \cup {None}]
    /\ ret = NoRet
    /\ env = NoEnv
    /\ MODEL = NoModel
    /\ DUBAI_SKILLS = <<>>

\* the call of build_clean_resume_json
BuildCleanResumeJson ==
    /\ pc = "call"
    /\ op = "build_clean_resume_json"
    /\ ret' = Returned(build_clean_resume_json(args.raw_text))
    /\ pc' = "done"
    /\ UNCHANGED <<op, args, env, MODEL, DUBAI_SKILLS>>

NextResume == BuildCleanResumeJson

SpecResume == InitResume /\ [][NextResume]_vars

\* a call of build_clean_resume_json has returned a report of a document
ResumeDone ==
    pc = "done" /\ op = "build_clean_resume_json" /\ ~ret.raised /\ ret.value # EmptyDict

\* the texts PHONE_RE matches in s, scanning from offset p
RECURSIVE PhoneTextsFrom(_, _)
PhoneTextsFrom(s, p) ==
    LET starts == {q \in p..(Len(s) - 1) : PhoneMatch(s, q).end # -1}
    IN  IF starts = {} THEN {}
        ELSE LET q == CHOOSE x \in starts : \A y \in starts : x <= y
                 e == PhoneMatch(s, q).end
             IN  {SubSeq(s, q + 1, e)} \cup PhoneTextsFrom(s, e)

\* C11 as stated: every email address and every phone number that occurs in
\* the normalized text of the whole document is in the contact information
\* build_clean_resume_json returns, whether or not header/footer stripping
\* drops its line.
C11_ContactsOfWholeDocument ==
    ResumeDone =>
        LET whole == normalize_formatting(args.raw_text)
        IN  /\ ToSet(EMAIL_RE_findall(whole)) \subseteq ret.value.contact.emails
            /\ PhoneTextsFrom(whole, 0) \subseteq ret.value.contact.phones

-----------------------------------------------------------------------------
(* parser_job.py: the job section splitter.                                *)

\* the heading words of line 33
JOB_HEADINGS ==
    << <<"r", "e", "s", "p", "o", "n", "s", "i", "b", "i", "l">>,
       <<"r", "e", "q", "u", "i", "r", "e", "m", "e", "n", "t">>,
       <<"q", "u", "a", "l", "i", "f", "i", "c", "a", "t", "i", "o", "n">>,
       <<"s", "k", "i", "l", "l">>,
       <<"w", "h", "a", "t", " ", "y", "o", "u", "'", "l", "l">>,
       <<"w", "h", "a", "t", " ", "y", "o", "u", " ", "w", "i", "l", "l">>,
       <<"y", "o", "u", " ", "w", "i", "l", "l">>,
       <<"y", "o", "u", " ", "a", "r", "e">> >>

\* any(h in ln_low for h in [...])
IsJobHeading(ln) ==
    \E k \in 1..Len(JOB_HEADINGS) : contains(strip(lower(ln)), JOB_HEADINGS[k])

\* sep.join(parts)
RECURSIVE JoinWith(_, _)
JoinWith(parts, sep) ==
    IF parts = <<>> THEN <<>>
    ELSE IF Len(parts) = 1 THEN parts[1]
    ELSE parts[1] \o sep \o JoinWith(Tail(parts), sep)

\* text.split("\n\n")
RECURSIVE SplitParagraphs(_)
SplitParagraphs(text) ==
    LET cuts == {i \in 1..(Len(text) - 1) : text[i] = "\n" /\ text[i + 1] = "\n"}
    IN  IF cuts = {} THEN <<text>>
        ELSE LET i == CHOOSE x \in cuts : \A y \in cuts : x <= y
             IN  <<SubSeq(text, 1, i - 1)>> \o SplitParagraphs(SubSeq(text, i + 2, Len(text)))

\* sections[hdr] = content, sections a dict: a key already there keeps its
\* place and gets the new value
DictSet(d, key, value) ==
    IF \E i \in 1..Len(d) : d[i].key = key
    THEN [i \in 1..Len(d) |-> IF d[i].key = key THEN [key |-> key, value |-> value] ELSE d[i]]
    ELSE Append(d, [key |-> key, value |-> value])

\* the loop of lines 42-46, from the i-th heading on
RECURSIVE CollectJobSections(_, _, _, _)
CollectJobSections(lines, positions, i, sections) ==
    IF i > Len(positions) THEN sections
    ELSE CollectJobSections(lines, positions, i + 1,
             DictSet(sections, strip(lines[positions[i]]),
                     strip(JoinWith(ContentLines(lines, positions, i), <<" ">>))))

\* extract_sections_from_job(text), text a string
extract_sections_from_job(text) ==
    LET lines == splitlines(text)
        headings == Ascending({i \in 1..Len(lines) : IsJobHeading(lines[i])})
    IN  IF headings = <<>>
        THEN <<[key |-> <<"d", "e", "s", "c", "r", "i", "p", "t", "i", "o", "n">>,
                value |-> JoinWith(SelectSeq(StripAll(SplitParagraphs(text)), NonBlank), <<" ">>)]>>
        ELSE CollectJobSections(lines, headings, 1, <<>>)

\* parse_job_text(raw_text): the fields the code computes itself.
\* responsibilities, requirements, tools_and_tech and noun_chunks come from
\* spaCy and YAKE and are left out.
parse_job_text(raw_text) ==
    LET text == normalize_text(raw_text)
    IN  [raw_text |-> raw_text,
         clean_text |-> text,
         sections |-> extract_sections_from_job(text)]

-----------------------------------------------------------------------------
(* Calls of the section splitters and of parse_job_text.                   *)

l_req == <<"R", "e", "q", "u", "i", "r", "e", "m", "e", "n", "t", "s", ":">>
l_y   == <<"y", " ", "z">>

SectionLines == {l_blank, l_short, l_long, l_skills, l_req}

\* a header line "Requirements:" followed by lines that hold no heading
RequirementsDocs ==
    {JoinLines(<<l_req>> \o d) : d \in ListsUpTo({l_short, l_long, l_y}, MaxDocLines)}

SectionDocs == DocsOf(SectionLines, MaxDocLines) \cup RequirementsDocs \cup {None}

InitSections ==
    /\ pc = "call"
    /\ \/ /\ op \in {"split_sections_by_headers", "extract_sections_from_job"}
          /\ args \in [text : SectionDocs]
       \/ /\ op = "parse_job_text"
          /\ args \in [raw_text : SectionDocs]
    /\ ret = NoRet
    /\ env = NoEnv
    /\ MODEL = NoModel
    /\ DUBAI_SKILLS = <<>>

\* the call of split_sections_by_headers: None has no splitlines
SplitSectionsByHeaders ==
    /\ pc = "call"
    /\ op = "split_sections_by_headers"
    /\ ret' = IF args.text = None THEN Raised("AttributeError")
              ELSE Returned(split_sections_by_headers(args.text))
    /\ pc' = "done"
    /\ UNCHANGED <<op, args, env, MODEL, DUBAI_SKILLS>>

\* the call of extract_sections_from_job: None has no splitlines
ExtractSectionsFromJob ==
    /\ pc = "call"
    /\ op = "extract_sections_from_job"
    /\ ret' = IF args.text = None THEN Raised("AttributeError")
              ELSE Returned(extract_sections_from_job(args.text))
    /\ pc' = "done"
    /\ UNCHANGED <<op, args, env, MODEL, DUBAI_SKILLS>>

\* the call of parse_job_text
ParseJobText ==
    /\ pc = "call"
    /\ op = "parse_job_text"
    /\ ret' = Returned(parse_job_text(args.raw_text))
    /\ pc' = "done"
    /\ UNCHANGED <<op, args, env, MODEL, DUBAI_SKILLS>>

NextSections == SplitSectionsByHeaders \/ ExtractSectionsFromJob \/ ParseJobText

SpecSections == InitSections /\ [][NextSections]_vars

\* a section splitter has returned the sections of a text
SplitterDone ==
    /\ pc = "done"
    /\ op \in {"split_sections_by_headers", "extract_sections_from_job"}
    /\ ~ret.raised

\* the line is a section boundary for the splitter that ran
IsBoundary(ln) ==
    IF op = "split_sections_by_headers" THEN IsResumeHeader(ln) ELSE IsJobHeading(ln)

\* C12 as stated: every line of the text is attributed to a section of the
\* returned SectionMap: a line that is not itself a header is found in the
\* body of some section, also when it stands before the first header or
\* under a header that occurs twice; and a text without any header comes
\* back as the one fallback section, "content" or "description".
C12_EveryLineInSomeSection ==
    SplitterDone =>
        LET lines == splitlines(args.text)
            sections == ret.value
        IN  /\ \A i \in 1..Len(lines) :
                NonBlank(lines[i]) /\ ~IsBoundary(lines[i]) =>
                    \E k \in 1..Len(sections) : contains(sections[k].value, strip(lines[i]))
            /\ (\A i \in 1..Len(lines) : ~IsBoundary(lines[i])) =>
                    /\ Len(sections) = 1
                    /\ sections[1].key = IF op = "split_sections_by_headers"
                                         THEN <<"c", "o", "n", "t", "e", "n", "t">> ELSE <<"d", "e", "s", "c", "r", "i", "p", "t", "i", "o", "n">>

\* C13 as stated: for a job description made of the header line
\* "Requirements:" and 3 more lines, none of them a header, the sections
\* parse_job_text returns have exactly one key, which matches
\* "requirements", and its body is the 3 lines joined.
C13_RequirementsSection ==
    pc = "done" /\ op = "parse_job_text" =>
        \A d \in [1..3 -> {l_short, l_long, l_y}] :
            args.raw_text = JoinLines(<<l_req>> \o d) =>
                LET sections == ret.value.sections
                IN  /\ Len(sections) = 1
                    /\ contains(lower(sections[1].key), <<"r", "e", "q", "u", "i", "r", "e", "m", "e", "n", "t", "s">>)
                    /\ sections[1].value = JoinWith(d, <<" ">>)

-----------------------------------------------------------------------------
(* Calls of detect_missing_skills with up to four missing skills.          *)

\* longest list of required skills of a request whose tips are looked at
MaxTipSkills == 4

s_sql == <<"S", "Q", "L">>

\* a taxonomy file with one term of each kind
TipTaxonomy == << [Skills |-> <<s_sql>>, Tools |-> <<s_git>>, Cloud |-> <<s_AWS>>] >>

TipSkills == {s_aws, s_git, s_Teamwork, s_sql}

InitTips ==
    /\ pc = "call"
    /\ op = "detect_missing_skills"
    /\ args \in [resume_skills : ListsUpTo(TipSkills, 1),
                 job_required_skills : ListsUpTo(TipSkills, MaxTipSkills)]
    /\ ret = NoRet
    /\ env = NoEnv
    /\ MODEL = NoModel
    /\ DUBAI_SKILLS \in {TipTaxonomy, <<>>}

SpecTips == InitTips /\ [][NextMissing]_vars

\* the place of a tip in the order cloud, tools, hard, soft
TipRank(t) ==
    CASE t = TipCloud -> 1
      [] t = TipTools -> 2
      [] t = TipHard -> 3
      [] t = TipSoft -> 4
      [] OTHER -> 0

\* C14: the tips of detect_missing_skills are the cloud tip iff missing_cloud
\* is non-empty, the tools tip iff missing_tools is, the core-stack tip iff
\* missing_hard_skills is and the soft-skills tip iff missing_soft_skills is;
\* nothing else is in the list, no tip is there twice, and the tips stand in
\* the order cloud, tools, hard, soft.
C14_TipsFollowBuckets ==
    MissingDone =>
        LET v == ret.value
            tips == v.improvement_tips
        IN  /\ InList(TipCloud, tips) <=> v.missing_cloud # <<>>
            /\ InList(TipTools, tips) <=> v.missing_tools # <<>>
            /\ InList(TipHard, tips) <=> v.missing_hard_skills # <<>>
            /\ InList(TipSoft, tips) <=> v.missing_soft_skills # <<>>
            /\ \A i \in 1..Len(tips) : TipRank(tips[i]) # 0
            /\ \A i, j \in 1..Len(tips) : i < j => TipRank(tips[i]) < TipRank(tips[j])

\* C14 witness: a call whose four buckets are all non-empty returned the
\* four tips
C14_Witness ==
    /\ MissingDone
    /\ ret.value.missing_cloud # <<>> /\ ret.value.missing_tools # <<>>
    /\ ret.value.missing_hard_skills # <<>> /\ ret.value.missing_soft_skills # <<>>
    /\ ret.value.improvement_tips = <<TipCloud, TipTools, TipHard, TipSoft>>

-----------------------------------------------------------------------------
(* Concurrent requests. /match is a plain def, which FastAPI runs on a     *)
(* thread pool, so calls of match_resume_to_job interleave at every read   *)
(* and write of the global _MODEL. In this specification pc, op, args, ret *)
(* and env are functions of the request.                                   *)

\* the requests running at once
NumRequests == 2

Requests == 1..NumRequests

\* a model_name other than the default
OtherModelName == "sentence-transformers/all-MiniLM-L6-v2"

ModelNames == {DefaultModelName, OtherModelName}

\* the arguments of a concurrent request
ConcMatchArgs ==
    {[a EXCEPT !.model_name = m] :
        a \in MatchArgs({<<t_a, t_a>>}, {<<NoList, NoList>>}, {DefaultWeights}),
        m \in ModelNames}

ConcMissingArgs ==
    [resume_skills : {<<>>}, job_required_skills : {<<s_aws>>, <<s_git>>}]

InitConc ==
    /\ pc = [p \in Requests |-> "call"]
    /\ op \in [Requests -> {"match_resume_to_job", "detect_missing_skills"}]
    /\ args \in [Requests -> ConcMatchArgs \cup ConcMissingArgs]
    /\ \A p \in Requests :
          IF op[p] = "match_resume_to_job" THEN args[p] \in ConcMatchArgs
          ELSE args[p] \in ConcMissingArgs
    /\ ret = [p \in Requests |-> NoRet]
    /\ env = [p \in Requests |-> NoEnv]
    /\ MODEL \in {NoModel, DefaultModelName}
    /\ DUBAI_SKILLS = TipTaxonomy

\* line 12: if _MODEL is None
TestModel(p) ==
    /\ pc[p] = "call"
    /\ op[p] = "match_resume_to_job"
    /\ env' = [env EXCEPT ![p] = [fault |-> "none", seen |-> MODEL]]
    /\ pc' = [pc EXCEPT ![p] = IF MODEL = NoModel THEN "load" ELSE "loaded"]
    /\ UNCHANGED <<op, args, ret, MODEL, DUBAI_SKILLS>>

\* line 13: _MODEL = SentenceTransformer(model_name)
LoadModel(p) ==
    /\ pc[p] = "load"
    /\ MODEL' = args[p].model_name
    /\ pc' = [pc EXCEPT ![p] = "loaded"]
    /\ UNCHANGED <<op, args, ret, env, DUBAI_SKILLS>>

\* line 13, SentenceTransformer(model_name) raising
LoadModelFails(p) ==
    /\ pc[p] = "load"
    /\ env' = [env EXCEPT ![p] = [fault |-> "load", seen |-> env[p].seen]]
    /\ ret' = [ret EXCEPT ![p] = Raised("SentenceTransformer")]
    /\ pc' = [pc EXCEPT ![p] = "done"]
    /\ UNCHANGED <<op, args, MODEL, DUBAI_SKILLS>>

\* line 14: return _MODEL, a read of the global, bound to model at line 105
ReturnModel(p) ==
    /\ pc[p] = "loaded"
    /\ env' = [env EXCEPT ![p] =
                  [fault |-> "none", seen |-> env[p].seen, model |-> MODEL]]
    /\ pc' = [pc EXCEPT ![p] = "embed"]
    /\ UNCHANGED <<op, args, ret, MODEL, DUBAI_SKILLS>>

\* lines 107-175 with the local model
EmbedAndScore(p) ==
    /\ pc[p] = "embed"
    /\ \E sim \in SimVals :
       \E pair_sims \in PairSims(Len(Units(args[p].resume_text)),
                                 Len(Units(args[p].job_text))) :
          ret' = [ret EXCEPT ![p] =
                     Returned(MatchReport(args[p], sim,
                         TopMatches(Units(args[p].resume_text),
                                    Units(args[p].job_text), pair_sims)))]
    /\ pc' = [pc EXCEPT ![p] = "done"]
    /\ UNCHANGED <<op, args, env, MODEL, DUBAI_SKILLS>>

\* detect_missing_skills reads its arguments and the taxonomy only
ConcDetectMissingSkills(p) ==
    /\ pc[p] = "call"
    /\ op[p] = "detect_missing_skills"
    /\ ret' = [ret EXCEPT ![p] =
                  Returned(detect_missing_skills(args[p].resume_skills,
                                                 args[p].job_required_skills))]
    /\ pc' = [pc EXCEPT ![p] = "done"]
    /\ UNCHANGED <<op, args, env, MODEL, DUBAI_SKILLS>>

NextConc ==
    \E p \in Requests :
        \/ TestModel(p)
        \/ LoadModel(p)
        \/ LoadModelFails(p)
        \/ ReturnModel(p)
        \/ EmbedAndScore(p)
        \/ ConcDetectMissingSkills(p)

SpecConc == InitConc /\ [][NextConc]_vars

\* the model request p embeds with when no other request runs beside it
ModelAlone(p) == IF env[p].seen = NoModel THEN args[p].model_name ELSE env[p].seen

\* request p has its model
HasModel(p) == op[p] = "match_resume_to_job" /\ pc[p] \in {"embed", "done"} /\ ~ret[p].raised

\* C15: no request writes process-wide state (the cached model and the
\* taxonomy stay as they are at every step), and every request embeds with
\* the model it embeds with when it runs alone
C15_NoSharedWrites ==
    /\ [][MODEL' = MODEL /\ DUBAI_SKILLS' = DUBAI_SKILLS]_vars
    /\ [](\A p \in Requests : HasModel(p) => env[p].model = ModelAlone(p))

-----------------------------------------------------------------------------
(* Calls of remove_headers_footers on documents longer than the two blocks *)
(* of six lines.                                                           *)

\* most lines of a document given to remove_headers_footers
MaxBlockDocLines == 7

\* five words: header-like, not footer-like
l_five == <<"a", " ", "a", " ", "a", " ", "a", " ", "a">>

\* six words with "page" and a digit: footer-like, not header-like
l_page == <<"p", "a", "g", "e", " ", "1", " ", "a", " ", "a", " ", "a", " ", "a">>

\* a short line between blanks
l_pad == <<" ", "x", " ">>

\* l_short is header-like and footer-like, l_long is neither
BlockLines == {l_short, l_five, l_long, l_page}

\* long documents of lines of three kinds, short documents of lines of any kind
BlockDocs ==
    DocsOf({l_short, l_five, l_long}, MaxBlockDocLines)
        \cup DocsOf({l_short, l_page, l_long}, MaxBlockDocLines)
        \cup DocsOf(BlockLines, MaxDocLines)
        \cup DocsOf({l_blank, l_pad, l_long, l_email, l_phone}, MaxDocLines)

InitBlocks ==
    /\ pc = "call"
    /\ op = "remove_headers_footers"
    /\ args \in [text : BlockDocs \cup {None}]
    /\ ret = NoRet
    /\ env = NoEnv
    /\ MODEL = NoModel
    /\ DUBAI_SKILLS = <<>>

RemoveHeadersFooters ==
    /\ pc = "call"
    /\ op = "remove_headers_footers"
    /\ ret' = Returned(remove_headers_footers(args.text))
    /\ pc' = "done"
    /\ UNCHANGED <<op, args, env, MODEL, DUBAI_SKILLS>>

NextBlocks == RemoveHeadersFooters

SpecBlocks == InitBlocks /\ [][NextBlocks]_vars

\* a call of remove_headers_footers has ended
BlocksDone == pc = "done" /\ op = "remove_headers_footers"

\* the non-blank lines of the document of the call, stripped
DocLines == IF args.text = None THEN <<>> ELSE BodyLines(args.text)

\* h: the header-like lines among the first min(6, n) of the n lines
HeaderCount(lines) ==
    Cardinality({i \in 1..Len(lines) : i <= 6 /\ HeaderLike(lines[i])})

\* f: the footer-like lines among the last min(6, m) of the m lines
FooterCount(lines) ==
    Cardinality({i \in 1..Len(lines) : i > Len(lines) - 6 /\ FooterLike(lines[i])})

\* the leading lines dropped: h when h >= 2
LeadingDropped == IF HeaderCount(DocLines) >= 2 THEN HeaderCount(DocLines) ELSE 0

\* the lines left after the leading lines are dropped
AfterHeader == SubSeq(DocLines, LeadingDropped + 1, Len(DocLines))

\* the trailing lines dropped: f when f >= 2
TrailingDropped == IF FooterCount(AfterHeader) >= 2 THEN FooterCount(AfterHeader) ELSE 0

\* C16: remove_headers_footers never raises; it returns, joined by newlines,
\* the non-blank lines of the document without the first h of them when
\* h >= 2 and then without the last f of what remains when f >= 2, a
\* contiguous run of the non-blank lines in their order
C16_DropsLeadingAndTrailingRuns ==
    BlocksDone =>
        /\ ~ret.raised
        /\ LeadingDropped + TrailingDropped <= Len(DocLines)
        /\ ret.value = JoinLines(SubSeq(DocLines, LeadingDropped + 1,
                                        Len(DocLines) - TrailingDropped))

\* a document of more than six lines lost a header block and a footer block,
\* kept a line, and the first line kept is header-like
C16_Witness ==
    /\ BlocksDone
    /\ Len(DocLines) > 6
    /\ LeadingDropped >= 2
    /\ TrailingDropped >= 2
    /\ LeadingDropped + TrailingDropped < Len(DocLines)
    /\ HeaderLike(DocLines[LeadingDropped + 1])
    /\ ret.value # <<>>

-----------------------------------------------------------------------------
(* Calls of get_embedding_model and match_resume_to_job one after another  *)
(* in one process. env.call counts the calls, env.seen is _MODEL as the    *)
(* call finds it and env.model the model the call works with.              *)

\* the calls of one process
MaxCalls == 3

SeqOps == {"get_embedding_model", "match_resume_to_job"}

SeqArgs == ConcMatchArgs

InitSeq ==
    /\ pc = "call"
    /\ op \in SeqOps
    /\ args \in SeqArgs
    /\ ret = NoRet
    /\ env = [fault |-> "none", call |-> 1, seen |-> NoModel, model |-> NoModel]
    /\ MODEL = NoModel
    /\ DUBAI_SKILLS = <<>>

\* line 13 raises: _MODEL stays None
SeqLoadFails ==
    /\ pc = "call"
    /\ MODEL = NoModel
    /\ env' = [env EXCEPT !.fault = "load"]
    /\ ret' = Raised("SentenceTransformer")
    /\ MODEL' = MODEL
    /\ pc' = "done"
    /\ UNCHANGED <<op, args, DUBAI_SKILLS>>

\* get_embedding_model(model_name) called on its own
SeqGetEmbeddingModel ==
    /\ pc = "call"
    /\ op = "get_embedding_model"
    /\ MODEL' = get_embedding_model(args.model_name)
    /\ env' = [env EXCEPT !.model = MODEL']
    /\ ret' = Returned(MODEL')
    /\ pc' = "done"
    /\ UNCHANGED <<op, args, DUBAI_SKILLS>>

\* match_resume_to_job with model.encode raising
SeqMatchEncodeFails ==
    /\ pc = "call"
    /\ op = "match_resume_to_job"
    /\ MODEL' = get_embedding_model(args.model_name)
    /\ env' = [env EXCEPT !.fault = "encode", !.model = MODEL']
    /\ ret' = Raised("encode")
    /\ pc' = "done"
    /\ UNCHANGED <<op, args, DUBAI_SKILLS>>

\* match_resume_to_job returning its report
SeqMatchReturns ==
    /\ pc = "call"
    /\ op = "match_resume_to_job"
    /\ MODEL' = get_embedding_model(args.model_name)
    /\ env' = [env EXCEPT !.model = MODEL']
    /\ \E sim \in SimVals :
       \E pair_sims \in PairSims(Len(Units(args.resume_text)), Len(Units(args.job_text))) :
          ret' = Returned(MatchReport(args, sim,
                     TopMatches(Units(args.resume_text), Units(args.job_text), pair_sims)))
    /\ pc' = "done"
    /\ UNCHANGED <<op, args, DUBAI_SKILLS>>

\* the process goes on to its next call
SeqNextCall ==
    /\ pc = "done"
    /\ env.call < MaxCalls
    /\ pc' = "call"
    /\ op' \in SeqOps
    /\ args' \in SeqArgs
    /\ ret' = NoRet
    /\ env' = [fault |-> "none", call |-> env.call + 1, seen |-> MODEL, model |-> NoModel]
    /\ UNCHANGED <<MODEL, DUBAI_SKILLS>>

NextSeq ==
    \/ SeqLoadFails
    \/ SeqGetEmbeddingModel
    \/ SeqMatchEncodeFails
    \/ SeqMatchReturns
    \/ SeqNextCall

SpecSeq == InitSeq /\ [][NextSeq]_vars

\* a call has ended with a model in hand
SeqDone == pc = "done" /\ env.fault # "load"

\* C17 as stated: a call that is not the first never constructs the model,
\* a cached model is never replaced or reset, and a later call works with
\* the cached model whatever its model_name
C17_OnlyFirstCallConstructs ==
    /\ [][MODEL' # MODEL => env.call = 1]_vars
    /\ [][MODEL # NoModel => MODEL' = MODEL]_vars
    /\ [](SeqDone /\ env.call > 1 /\ env.seen # NoModel => env.model = env.seen)

\* C17, amended: the model is constructed only by a call that finds none
\* cached (the first call, or a later one when every construction before it
\* raised), with the model_name of that call; a cached model is never
\* replaced or reset; a call that finds a model cached works with it
\* whatever its model_name
C17_CachedModelKept ==
    /\ [][MODEL' # MODEL => MODEL = NoModel /\ MODEL' = args.model_name]_vars
    /\ [][MODEL # NoModel => MODEL' = MODEL]_vars
    /\ [](SeqDone /\ env.seen # NoModel => env.model = env.seen /\ MODEL = env.seen)
    /\ [](SeqDone /\ env.seen = NoModel => env.model = args.model_name /\ MODEL = env.model)

\* a later call asked for another model than the cached one and ended
C17_Witness ==
    /\ SeqDone
    /\ env.call > 1
    /\ env.seen # NoModel
    /\ args.model_name # env.seen
    /\ env.model = env.seen

-----------------------------------------------------------------------------
(* skill_extractor.extract_skills and parser_job.extract_tech_tools.  The  *)
(* linguistic analyzer (spaCy) and the keyword extractor (YAKE) are the    *)
(* environment.                                                            *)

\* the skills of HARD_SKILLS, category by category
HARD_SKILLS ==
    << <<"p", "y", "t", "h", "o", "n">>,
       <<"j", "a", "v", "a">>,
       <<"j", "a", "v", "a", "s", "c", "r", "i", "p", "t">>,
       <<"t", "y", "p", "e", "s", "c", "r", "i", "p", "t">>,
       <<"c", "+", "+">>,
       <<"s", "w", "i", "f", "t">>,
       <<"d", "a", "r", "t">>,
       <<"k", "o", "t", "l", "i", "n">>,
       <<"g", "o">>,
       <<"r", "u", "s", "t">>,
       <<"s", "q", "l">>,
       <<"n", "o", "s", "q", "l">>,
       <<"r", "e", "a", "c", "t">>,
       <<"n", "e", "x", "t", ".", "j", "s">>,
       <<"a", "n", "g", "u", "l", "a", "r">>,
       <<"v", "u", "e">>,
       <<"f", "l", "u", "t", "t", "e", "r">>,
       <<"s", "w", "i", "f", "t", "u", "i">>,
       <<"a", "n", "d", "r", "o", "i", "d">>,
       <<"i", "o", "s">>,
       <<"n", "o", "d", "e">>,
       <<"e", "x", "p", "r", "e", "s", "s">>,
       <<"d", "j", "a", "n", "g", "o">>,
       <<"f", "a", "s", "t", "a", "p", "i">>,
       <<"f", "l", "a", "s", "k">>,
       <<"s", "p", "r", "i", "n", "g", " ", "b", "o", "o", "t">>,
       <<"l", "a", "r", "a", "v", "e", "l">>,
       <<"g", "r", "a", "p", "h", "q", "l">>,
       <<"m", "i", "c", "r", "o", "s", "e", "r", "v", "i", "c", "e", "s">>,
       <<"m", "a", "c", "h", "i", "n", "e", " ", "l", "e", "a", "r", "n", "i", "n", "g">>,
       <<"d", "e", "e", "p", " ", "l", "e", "a", "r", "n", "i", "n", "g">>,
       <<"n", "l", "p">>,
       <<"t", "r", "a", "n", "s", "f", "o", "r", "m", "e", "r", "s">>,
       <<"p", "y", "t", "o", "r", "c", "h">>,
       <<"t", "e", "n", "s", "o", "r", "f", "l", "o", "w">>,
       <<"s", "c", "i", "k", "i", "t", "-", "l", "e", "a", "r", "n">>,
       <<"h", "u", "g", "g", "i", "n", "g", "f", "a", "c", "e">>,
       <<"p", "y", "s", "p", "a", "r", "k">>,
       <<"a", "i", "r", "f", "l", "o", "w">>,
       <<"k", "a", "f", "k", "a">>,
       <<"h", "a", "d", "o", "o", "p">>,
       <<"s", "p", "a", "r", "k">>,
       <<"e", "t", "l">>,
       <<"b", "i", "g", " ", "d", "a", "t", "a">>,
       <<"a", "w", "s">>,
       <<"a", "z", "u", "r", "e">>,
       <<"g", "c", "p">>,
       <<"d", "o", "c", "k", "e", "r">>,
       <<"k", "u", "b", "e", "r", "n", "e", "t", "e", "s">>,
       <<"t", "e", "r", "r", "a", "f", "o", "r", "m">>,
       <<"l", "i", "n", "u", "x">>,
       <<"c", "i", "/", "c", "d">>,
       <<"j", "e", "n", "k", "i", "n", "s">>,
       <<"g", "i", "t", "h", "u", "b", " ", "a", "c", "t", "i", "o", "n", "s">>,
       <<"p", "o", "s", "t", "g", "r", "e", "s", "q", "l">>,
       <<"m", "y", "s", "q", "l">>,
       <<"m", "o", "n", "g", "o", "d", "b">>,
       <<"r", "e", "d", "i", "s">>,
       <<"d", "y", "n", "a", "m", "o", "d", "b">>,
       <<"s", "n", "o", "w", "f", "l", "a", "k", "e">>,
       <<"p", "y", "t", "e", "s", "t">>,
       <<"s", "e", "l", "e", "n", "i", "u", "m">>,
       <<"c", "y", "p", "r", "e", "s", "s">>,
       <<"p", "o", "s", "t", "m", "a", "n">>,
       <<"u", "n", "i", "t", " ", "t", "e", "s", "t", "i", "n", "g">>,
       <<"i", "n", "t", "e", "g", "r", "a", "t", "i", "o", "n", " ", "t", "e", "s", "t", "i", "n", "g">> >>

\* the terms that name a tool or a technology
DEFAULT_TECH_LIST ==
    << <<"p", "y", "t", "h", "o", "n">>,
       <<"j", "a", "v", "a">>,
       <<"j", "a", "v", "a", "s", "c", "r", "i", "p", "t">>,
       <<"r", "e", "a", "c", "t">>,
       <<"n", "o", "d", "e">>,
       <<"d", "j", "a", "n", "g", "o">>,
       <<"f", "l", "a", "s", "k">>,
       <<"s", "w", "i", "f", "t">>,
       <<"k", "o", "t", "l", "i", "n">>,
       <<"f", "l", "u", "t", "t", "e", "r">>,
       <<"a", "w", "s">>,
       <<"a", "z", "u", "r", "e">>,
       <<"g", "c", "p">>,
       <<"d", "o", "c", "k", "e", "r">>,
       <<"k", "u", "b", "e", "r", "n", "e", "t", "e", "s">>,
       <<"s", "q", "l">>,
       <<"p", "o", "s", "t", "g", "r", "e", "s", "q", "l">>,
       <<"m", "o", "n", "g", "o", "d", "b">>,
       <<"p", "y", "t", "o", "r", "c", "h">>,
       <<"t", "e", "n", "s", "o", "r", "f", "l", "o", "w">>,
       <<"n", "l", "p">>,
       <<"s", "p", "a", "r", "k">>,
       <<"h", "a", "d", "o", "o", "p">>,
       <<"g", "i", "t">>,
       <<"c", "i", "/", "c", "d">>,
       <<"r", "e", "s", "t", " ", "a", "p", "i">>,
       <<"g", "r", "a", "p", "h", "q", "l">>,
       <<"m", "i", "c", "r", "o", "s", "e", "r", "v", "i", "c", "e", "s">>,
       <<"l", "i", "n", "u", "x">> >>

\* SOFT_SKILLS of skill_extractor.py
SOFT_SKILLS == SoftSkillList

\* set([skill.lower() for cat in HARD_SKILLS.values() for skill in cat])
FLAT_HARD_SKILLS == {lower(HARD_SKILLS[i]) : i \in 1..Len(HARD_SKILLS)}

\* extract_skills(text).  A noun chunk is a run of clean_text, so a chunk
\* that is a skill was already found by the keyword match.
extract_skills(text) ==
    LET clean_text == extractor_normalize(text)
    IN  [hard_skills |-> sorted({s \in FLAT_HARD_SKILLS : contains(clean_text, s)}),
         soft_skills |-> sorted({s \in ToSet(SOFT_SKILLS) : contains(clean_text, s)})]

\* top_k of extract_tech_tools
DefaultTopK == 30

\* re.search(r"[A-Z]{2,}", kw)
HasAcronym(kw) ==
    \E i \in 1..(Len(kw) - 1) :
        /\ CodePoint[kw[i]] >= 65 /\ CodePoint[kw[i]] <= 90
        /\ CodePoint[kw[i + 1]] >= 65 /\ CodePoint[kw[i + 1]] <= 90

\* the three tests that keep a keyword
KeepsKeyword(kw, text_lower) ==
    \/ \E i \in 1..Len(DEFAULT_TECH_LIST) : contains(lower(kw), DEFAULT_TECH_LIST[i])
    \/ HasAcronym(kw)
    \/ /\ ~contains(kw, <<" ">>)
       /\ Len(kw) <= 20
       /\ contains(text_lower, lower(kw))

\* the loop over the extracted keywords, from the i-th on
RECURSIVE KeptKeywords(_, _, _, _, _)
KeptKeywords(extracted, i, text_lower, final, top_k) ==
    IF i > Len(extracted) THEN final
    ELSE IF KeepsKeyword(extracted[i], text_lower)
    THEN IF Len(final) + 1 >= top_k THEN Append(final, extracted[i])
         ELSE KeptKeywords(extracted, i + 1, text_lower,
                           Append(final, extracted[i]), top_k)
    ELSE IF Len(final) >= top_k THEN final
    ELSE KeptKeywords(extracted, i + 1, text_lower, final, top_k)

\* the loop over DEFAULT_TECH_LIST, from the i-th term on
RECURSIVE DirectMatches(_, _, _)
DirectMatches(i, text_lower, final) ==
    IF i > Len(DEFAULT_TECH_LIST) THEN final
    ELSE IF contains(text_lower, DEFAULT_TECH_LIST[i]) /\ ~InList(DEFAULT_TECH_LIST[i], final)
    THEN DirectMatches(i + 1, text_lower, Append(final, DEFAULT_TECH_LIST[i]))
    ELSE DirectMatches(i + 1, text_lower, final)

\* the list without the later copies of its elements
RECURSIVE Dedupe(_, _, _)
Dedupe(final, i, out) ==
    IF i > Len(final) THEN out
    ELSE IF InList(final[i], out) THEN Dedupe(final, i + 1, out)
    ELSE Dedupe(final, i + 1, Append(out, final[i]))

\* extract_tech_tools(text, top_k), keywords being what YAKE extracted
extract_tech_tools(text, keywords, top_k) ==
    LET out == Dedupe(DirectMatches(1, lower(text),
                          KeptKeywords(keywords, 1, lower(text), <<>>, top_k)),
                      1, <<>>)
    IN  SubSeq(out, 1, IF Len(out) < top_k THEN Len(out) ELSE top_k)

-----------------------------------------------------------------------------
(* routers/analyze.py: the /analyze pipeline.  The handler is a coroutine: *)
(* it waits at line 34 for the upload, and other requests run meanwhile.   *)
(* The text extractors of parser_resume.py, YAKE, the embedding provider   *)
(* and sklearn are the environment.                                        *)

\* text.encode("ascii", "ignore").decode()
IsAscii(c) == CodePoint[c] < 128

AsciiOnly(text) == SelectSeq(text, IsAscii)

\* parser_resume.clean_resume_text(text)
clean_resume_text(text) ==
    IF text = None \/ text = <<>> THEN <<>>
    ELSE strip(AsciiOnly(SubSpaces(text)))

\* s.endswith(suffix)
endswith(s, suffix) ==
    Len(suffix) <= Len(s) /\ SubSeq(s, Len(s) - Len(suffix) + 1, Len(s)) = suffix

\* filename.split(".")[-1]
LastPiece(filename) ==
    LET dots == {i \in 1..Len(filename) : filename[i] = "."}
    IN  IF dots = {} THEN filename
        ELSE SubSeq(filename, (CHOOSE i \in dots : \A j \in dots : j <= i) + 1,
                    Len(filename))

\* tempfile.gettempdir(), and the name tempfile draws for the file: "tmp" and
\* eight characters
TempDir  == <<"/", "t", "m", "p", "/">>
TempBase == <<"t", "m", "p", "a", "a", "a", "a", "a", "a", "a", "a">>
TempName == TempDir \o TempBase

\* tmp.name of NamedTemporaryFile(delete=False, suffix=f".{suffix}")
TempPath(filename) == TempName \o <<".">> \o LastPiece(filename)

\* the bytes of os.fsencode(s)
Utf8Len(c) ==
    IF CodePoint[c] < 128 THEN 1
    ELSE IF CodePoint[c] < 2048 THEN 2
    ELSE IF CodePoint[c] < 65536 THEN 3
    ELSE 4

BytesOfWidth(s, w) == w * Cardinality({i \in 1..Len(s) : Utf8Len(s[i]) = w})

ByteLen(s) == BytesOfWidth(s, 1) + BytesOfWidth(s, 2) + BytesOfWidth(s, 3) + BytesOfWidth(s, 4)

\* what os.open(file, O_RDWR | O_CREAT | O_EXCL) inside NamedTemporaryFile
\* does with the name TempDir + TempBase + "." + suffix.  A path of 4096
\* bytes or more is refused before it is looked up (ENAMETOOLONG).
\* suffix holds no ".", so its pieces between "/" are plain names.  The
\* first piece of the name is new in TempDir: with pieces after it, it is a
\* directory that does not exist (ENOENT), or a name over 255 bytes
\* (ENAMETOOLONG); alone, a "/" at its end asks to create a directory
\* (EISDIR).  "none": the file is made
TempFault(suffix) ==
    LET slashes == {i \in 1..Len(suffix) : suffix[i] = "/"}
        first == IF slashes = {} THEN Len(suffix) + 1
                 ELSE CHOOSE i \in slashes : \A j \in 1..(i - 1) : suffix[j] # "/"
        head == ByteLen(TempBase \o <<".">> \o SubSeq(suffix, 1, first - 1))
        several == \E i \in 1..(Len(suffix) - 1) : suffix[i] = "/" /\ suffix[i + 1] # "/"
    IN  IF ByteLen(TempName \o <<".">> \o suffix) >= 4096 THEN "OSError"
        ELSE IF several THEN (IF head > 255 THEN "OSError" ELSE "FileNotFoundError")
        ELSE IF slashes # {} THEN "IsADirectoryError"
        ELSE IF head > 255 THEN "OSError"
        ELSE "none"

\* the branch parse_resume takes on file_path
ParseResumeBranch(file_path) ==
    IF endswith(lower(file_path), <<".", "p", "d", "f">>) THEN "pdf"
    ELSE IF endswith(lower(file_path), <<".", "d", "o", "c", "x">>) THEN "docx"
    ELSE "unsupported"

\* [s.lower() for s in job_req_skills]
LowerAll(xs) == [i \in 1..Len(xs) |-> lower(xs[i])]

\* what lines 40-62 of analyze_resume_and_job compute
AnalyzeParsed(raw_resume_text, cleaned_resume, resume_clean_text, resume_skill_data, job_data, tools) ==
    [raw_resume_text   |-> raw_resume_text,
     cleaned_resume    |-> cleaned_resume,
     resume_clean_text |-> resume_clean_text,
     resume_skill_data |-> resume_skill_data,
     resume_all_skills |-> resume_skill_data.hard_skills \o resume_skill_data.soft_skills,
     job_data          |-> [raw_text       |-> job_data.raw_text,
                            clean_text     |-> job_data.clean_text,
                            sections       |-> job_data.sections,
                            tools_and_tech |-> tools],
     job_clean_text    |-> job_data.clean_text,
     job_req_skills    |-> LowerAll(tools)]

\* the arguments of the call at lines 75-80
AnalyzeMatchArgs(p) ==
    [resume_text |-> p.resume_clean_text, job_text |-> p.job_clean_text,
     resume_skills |-> p.resume_all_skills, job_required_skills |-> p.job_req_skills,
     model_name |-> DefaultModelName,
     semantic_weight |-> DefaultWeights[1], keyword_weight |-> DefaultWeights[2]]

\* the response of lines 85-105
AnalyzeResponse(p, match_result) ==
    [status |-> "success",
     resume |-> [raw |-> p.raw_resume_text, clean |-> p.resume_clean_text,
                 sections |-> p.cleaned_resume, skills |-> p.resume_skill_data],
     job |-> [clean |-> p.job_clean_text, parsed |-> p.job_data,
              required_skills |-> p.job_req_skills],
     matching |-> [semantic |-> match_result.semantic_sim,
                   keyword_ratio |-> match_result.keyword_ratio,
                   final_score |-> match_result.final_score,
                   top_matches |-> match_result.top_matches],
     missing_skills |-> detect_missing_skills(p.resume_all_skills, p.job_req_skills)]

\* the lines of an uploaded resume and of a job description
l_tag   == <<"<", "b", ">", " ", "x">>
l_emoji == <<"a", " ", "U+1F600">>

AnalyzeLines == {l_blank, l_pad, l_tag, l_emoji}

AnalyzeDocs == DocsOf(AnalyzeLines, MaxDocLines)

t_x_y == <<"x", "\n", "y">>

AnalyzeFewDocs == {t_empty, t_x_y}

\* texts that name skills and tools
t_aws     == <<"a", "w", "s">>
t_AWS_git == <<"A", "W", "S", "\n", "g", "i", "t">>
t_HR_sql  == <<"H", "R", " ", "x", "\n", "s", "q", "l", "\n", "t", "e", "a", "m", "w", "o", "r", "k">>

AnalyzeSkillDocs == {t_aws, t_AWS_git, t_HR_sql}

\* the names of the uploaded file
f_pdf      == <<"r", ".", "p", "d", "f">>
f_docx     == <<"r", ".", "d", "o", "c", "x">>
f_txt      == <<"r", ".", "t", "x", "t">>
f_PDF      == <<"r", ".", "P", "D", "F">>
f_Docx     == <<"r", ".", "v", "2", ".", "D", "o", "c", "x">>
f_TXT      == <<"r", ".", "T", "X", "T">>
f_bare_pdf == <<"p", "d", "f">>
f_bare     == <<"r">>
f_slash    == <<"r", ".", "p", "d", "/", "f">>
f_dirs     == <<"a", "/", "b", ".", "c", "/", "p", "d", "f">>
f_trail    == <<"r", ".", "p", "d", "f", "/">>
\* the longest name that can be made, and one byte more
f_longest  == <<"r", ".">> \o [i \in 1..243 |-> "a"]
f_too_long == <<"r", ".">> \o [i \in 1..240 |-> "a"] \o <<"U+1F600">>
\* paths of 4095 and of 4096 bytes: a missing directory, then a name in it
\* or slashes only
f_path_max   == <<"r", ".", "p", "d", "/">> \o [i \in 1..4075 |-> "a"]
f_path_long  == <<"r", ".", "p", "d", "/">> \o [i \in 1..4076 |-> "a"]
f_path_trail == <<"r", ".", "p", "d">> \o [i \in 1..4077 |-> "/"]

AnalyzeFilenames ==
    {f_pdf, f_docx, f_txt, f_PDF, f_Docx, f_TXT, f_bare_pdf, f_bare,
     f_slash, f_dirs, f_trail, f_longest, f_too_long,
     f_path_max, f_path_long, f_path_trail}

InitAnalyze ==
    /\ pc = "call"
    /\ op = "analyze_resume_and_job"
    /\ \/ args \in [filename : {f_pdf}, file_text : AnalyzeDocs,
                    job_description : AnalyzeFewDocs]
       \/ args \in [filename : {f_pdf}, file_text : AnalyzeFewDocs,
                    job_description : AnalyzeDocs]
       \/ args \in [filename : AnalyzeFilenames, file_text : AnalyzeSkillDocs,
                    job_description : AnalyzeSkillDocs]
    /\ ret = NoRet
    /\ env = NoEnv
    /\ MODEL = NoModel
    /\ DUBAI_SKILLS = TipTaxonomy

\* lines 29-32 when NamedTemporaryFile raises: no file is made, temp_path
\* is still None at the finally clause
AnalyzeTempFails ==
    /\ pc = "call"
    /\ op = "analyze_resume_and_job"
    /\ TempFault(LastPiece(args.filename)) # "none"
    /\ env' = [fault |-> "tempfile", temp_path |-> None, temp_file |-> FALSE]
    /\ ret' = Raised(TempFault(LastPiece(args.filename)))
    /\ pc' = "done"
    /\ UNCHANGED <<op, args, MODEL, DUBAI_SKILLS>>

\* lines 29-34: the temporary file is made and the handler waits for the upload
AnalyzeBegin ==
    /\ pc = "call"
    /\ op = "analyze_resume_and_job"
    /\ TempFault(LastPiece(args.filename)) = "none"
    /\ env' = [fault |-> "none", temp_path |-> TempPath(args.filename), temp_file |-> TRUE]
    /\ pc' = "read"
    /\ UNCHANGED <<op, args, ret, MODEL, DUBAI_SKILLS>>

\* another request stores a model in _MODEL (line 13 of semantic_matcher.py):
\* a coroutine of the event loop while this one waits at line 34, or a /match
\* call of the thread pool that found _MODEL None at line 12, whose store
\* falls before, at any line of, or after this handler
OtherRequestStoresModel ==
    /\ op = "analyze_resume_and_job"
    /\ \E model_name \in ModelNames :
        /\ MODEL # model_name
        /\ MODEL' = model_name
    /\ UNCHANGED <<pc, op, args, ret, env, DUBAI_SKILLS>>

\* the text parse_resume gets out of the file: the extractor's text, or ""
\* when the extractor raised
ExtractedTexts == {args.file_text, <<>>}

\* what YAKE may extract from text
YakeLists ==
    {<<>>, <<s_AWS>>, <<s_aws, s_git>>, <<<<"X">>>>, <<<<"x">>, <<"x", " ", "y">>>>,
     <<<<"H", "R">>, <<"x">>>>}

YakeKeywords(text) ==
    {kws \in YakeLists : \A i \in 1..Len(kws) : contains(lower(text), lower(kws[i]))}

\* lines 35-40 when parse_resume raises ValueError: neither .pdf nor .docx;
\* the finally clause removes the file
AnalyzeUnsupported ==
    /\ pc = "read"
    /\ op = "analyze_resume_and_job"
    /\ ParseResumeBranch(env.temp_path) = "unsupported"
    /\ env' = [env EXCEPT !.fault = "parse_resume", !.temp_file = FALSE]
    /\ ret' = Raised("ValueError")
    /\ pc' = "done"
    /\ UNCHANGED <<op, args, MODEL, DUBAI_SKILLS>>

\* lines 35-72, to the call of match_resume_to_job
AnalyzeParse ==
    /\ pc = "read"
    /\ op = "analyze_resume_and_job"
    /\ ParseResumeBranch(env.temp_path) \in {"pdf", "docx"}
    /\ \E extracted \in ExtractedTexts :
       \E raw_resume_text \in {clean_resume_text(extracted)} :
       \E cleaned_resume \in {build_clean_resume_json(raw_resume_text)} :
       \E resume_clean_text \in {IF cleaned_resume = EmptyDict THEN <<>>
                                 ELSE cleaned_resume.clean_text} :
       \E resume_skill_data \in {extract_skills(resume_clean_text)} :
       \E job_data \in {parse_job_text(args.job_description)} :
       \E keywords \in YakeKeywords(job_data.clean_text) :
       \E tools \in {extract_tech_tools(job_data.clean_text, keywords, DefaultTopK)} :
       \E p \in {AnalyzeParsed(raw_resume_text, cleaned_resume, resume_clean_text,
                               resume_skill_data, job_data, tools)} :
          env' = [fault |-> "none", temp_path |-> env.temp_path, temp_file |-> TRUE,
                  parsed |-> p, resume_text |-> AnalyzeMatchArgs(p).resume_text,
                  job_text |-> AnalyzeMatchArgs(p).job_text]
    /\ pc' = "match"
    /\ UNCHANGED <<op, args, ret, MODEL, DUBAI_SKILLS>>

\* line 12 of get_embedding_model: _MODEL is read
AnalyzeTestModel ==
    /\ pc = "match"
    /\ op = "analyze_resume_and_job"
    /\ pc' = IF MODEL = NoModel THEN "construct" ELSE "return"
    /\ UNCHANGED <<op, args, ret, env, MODEL, DUBAI_SKILLS>>

\* line 13: the model is constructed and stored
AnalyzeLoadModel ==
    /\ pc = "construct"
    /\ op = "analyze_resume_and_job"
    /\ MODEL' = DefaultModelName
    /\ pc' = "return"
    /\ UNCHANGED <<op, args, ret, env, DUBAI_SKILLS>>

\* line 13: SentenceTransformer(model_name) raises
AnalyzeLoadFails ==
    /\ pc = "construct"
    /\ op = "analyze_resume_and_job"
    /\ env' = [env EXCEPT !.fault = "load", !.temp_file = FALSE]
    /\ ret' = Raised("SentenceTransformer")
    /\ pc' = "done"
    /\ UNCHANGED <<op, args, MODEL, DUBAI_SKILLS>>

\* line 14: the model of this call is what _MODEL holds now
AnalyzeReturnModel ==
    /\ pc = "return"
    /\ op = "analyze_resume_and_job"
    /\ env' = [fault |-> "none", temp_path |-> env.temp_path, temp_file |-> TRUE,
               parsed |-> env.parsed, resume_text |-> env.resume_text,
               job_text |-> env.job_text, model |-> MODEL]
    /\ pc' = "embed"
    /\ UNCHANGED <<op, args, ret, MODEL, DUBAI_SKILLS>>

\* model.encode raises in match_resume_to_job
AnalyzeEncodeFails ==
    /\ env' = [env EXCEPT !.fault = "encode", !.temp_file = FALSE]
    /\ ret' = Raised("encode")

\* cosine_similarity(resume_embs, job_embs) raises inside the try
AnalyzePairwiseFails ==
    \E sim \in SimVals :
        /\ env' = [env EXCEPT !.fault = "pairwise", !.temp_file = FALSE]
        /\ ret' = Returned(AnalyzeResponse(env.parsed,
                      MatchReport(AnalyzeMatchArgs(env.parsed), sim, <<>>)))

\* the whole pipeline returns
AnalyzeReturns ==
    \E a \in {AnalyzeMatchArgs(env.parsed)} :
    \E sim \in SimVals :
    \E report \in {MatchReport(a, sim, <<>>)} :
    \E pair_sims \in PairSims(Len(Units(a.resume_text)), Len(Units(a.job_text))) :
        /\ env' = [env EXCEPT !.temp_file = FALSE]
        /\ ret' = Returned(AnalyzeResponse(env.parsed, [report EXCEPT !.top_matches =
                      TopMatches(Units(a.resume_text), Units(a.job_text), pair_sims)]))

\* lines 109-175 of match_resume_to_job, then lines 85-110 of the handler
AnalyzeEmbedAndScore ==
    /\ pc = "embed"
    /\ op = "analyze_resume_and_job"
    /\ \/ AnalyzeEncodeFails
       \/ AnalyzePairwiseFails
       \/ AnalyzeReturns
    /\ pc' = "done"
    /\ UNCHANGED <<op, args, MODEL, DUBAI_SKILLS>>

NextAnalyze ==
    \/ AnalyzeTempFails
    \/ AnalyzeBegin
    \/ OtherRequestStoresModel
    \/ AnalyzeUnsupported
    \/ AnalyzeParse
    \/ AnalyzeTestModel
    \/ AnalyzeLoadModel
    \/ AnalyzeLoadFails
    \/ AnalyzeReturnModel
    \/ AnalyzeEmbedAndScore

SpecAnalyze == InitAnalyze /\ [][NextAnalyze]_vars

\* the pipeline is inside its call of match_resume_to_job
AnalyzeMatching ==
    pc \in {"match", "construct", "return", "embed"} /\ op = "analyze_resume_and_job"

\* the pipeline has called match_resume_to_job and ended
AnalyzeMatched ==
    /\ pc = "done"
    /\ op = "analyze_resume_and_job"
    /\ env.fault \notin {"tempfile", "parse_resume"}

\* text holds a newline
HasNewline(text) == \E i \in 1..Len(text) : text[i] = "\n"

\* C18: the two texts /analyze hands to match_resume_to_job hold no newline,
\* so each is one unit, and when the pairwise step succeeds top_matches is
\* one pair, of the two texts
C18_OneUnitEach ==
    AnalyzeMatching \/ AnalyzeMatched =>
        /\ ~HasNewline(env.resume_text)
        /\ ~HasNewline(env.job_text)
        /\ Units(env.resume_text) = <<env.resume_text>>
        /\ Units(env.job_text) = <<env.job_text>>
        /\ AnalyzeMatched /\ env.fault = "none" =>
              /\ ~ret.raised
              /\ ret.value.resume.clean = env.resume_text
              /\ ret.value.job.clean = env.job_text
              /\ Len(ret.value.matching.top_matches) = 1
              /\ ret.value.matching.top_matches[1].resume_snippet = env.resume_text
              /\ ret.value.matching.top_matches[1].job_snippet = env.job_text

\* a resume of several lines and a job description of several lines gave
\* one pair
C18_Witness ==
    /\ AnalyzeMatched
    /\ env.fault = "none"
    /\ HasNewline(strip(args.file_text))
    /\ HasNewline(strip(args.job_description))
    /\ env.resume_text # <<>>
    /\ env.job_text # <<>>
    /\ Len(ret.value.matching.top_matches) = 1

====
